---- MODULE Spec2Model ----
(***************************************************************************)
(* A model of the PostgreSQL provider's role and extension resources:      *)
(* the resource handlers (Create / Read / Update / Delete / Exists), the   *)
(* statements they build, the transaction they run them in, and the        *)
(* catalog those statements act on.                                        *)
(***************************************************************************)
EXTENDS Integers, Sequences, FiniteSets, TLC

VARIABLES
    nsp,        \* one schema and the handler that sets its policies: [acl, ...]
    dacl,       \* pg_default_acl, the tables of the database, and the handler on them
    helper,     \* the helper function called last: [fn, arg, out]
    procs,      \* the goroutines that run handlers side by side: [op, at, holds, err]
    kind,       \* which resource this run manages: "role" or "extension"
    features,   \* capabilities of the connected server (c.featureSupported)
    catalog,    \* pg_roles / pg_auth_members as committed: role name -> row
    txn,        \* whether the handler's transaction is open
    view,       \* the open transaction's view of the catalog
    lock,       \* c.catalogLock: [writer |-> BOOLEAN, readers |-> Nat]
    d,          \* the resource's schema.ResourceData: [id, old, new]
    pc,         \* position of the running handler
    op,         \* the handler that is running or ran last
    todo,       \* rest of the loop in revokeRoles / grantRoles / Delete
    log,        \* statements this invocation sent to the server, in order
    pre,        \* the catalog when this invocation started
    ret,        \* what the last handler returned: "none" | "ok" | "err" | ...
    fail,       \* why it returned an error
    cfg,        \* the configuration this invocation was given (the desired state)
    extcat,     \* pg_extension of the target database, as committed
    extview,    \* the open transaction's view of pg_extension
    ops,        \* how many handlers have been invoked so far
    last,       \* the invocation before this one: [op, ret, cfg, synced]
    synced      \* whether this invocation started on a saved state that a Read
                \* would have left as it was

vars == << nsp, dacl, helper, procs, kind, features, catalog, txn, view, lock, d, pc, op, todo, log, pre,
           ret, fail, cfg, extcat, extview, ops, last, synced >>

-----------------------------------------------------------------------------
(* Bounds of the model. *)

\* How many attributes a declared configuration sets away from the schema defaults.
MaxDiff == 1

\* How many handler invocations one run makes.
MaxOps == 3

-----------------------------------------------------------------------------
(* Names. *)

RoleNames == {"r1", "r2"}
Groups    == {"g1", "g2"}

featureRLS == "RLS"
featureCreateRoleWith == "CreateRoleWith"
featureReassignOwnedCurrentUser == "ReassignOwnedCurrentUser"

\* The servers the client may talk to, oldest first.
FeatureSets ==
    { {},
      {featureCreateRoleWith, featureRLS, featureReassignOwnedCurrentUser} }

featureSupported(f) == f \in features

-----------------------------------------------------------------------------
(* The role resource's attributes. *)

roleBypassRLSAttr         == "bypass_row_level_security"
roleConnLimitAttr         == "connection_limit"
roleCreateDBAttr          == "create_database"
roleCreateRoleAttr        == "create_role"
roleEncryptedPassAttr     == "encrypted_password"
roleInheritAttr           == "inherit"
roleLoginAttr             == "login"
roleNameAttr              == "name"
rolePasswordAttr          == "password"
roleReplicationAttr       == "replication"
roleSkipDropRoleAttr      == "skip_drop_role"
roleSkipReassignOwnedAttr == "skip_reassign_owned"
roleSuperuserAttr         == "superuser"
roleValidUntilAttr        == "valid_until"
roleRolesAttr             == "roles"

RoleAttrs ==
    { roleBypassRLSAttr, roleConnLimitAttr, roleCreateDBAttr, roleCreateRoleAttr,
      roleEncryptedPassAttr, roleInheritAttr, roleLoginAttr, roleNameAttr,
      rolePasswordAttr, roleReplicationAttr, roleSkipDropRoleAttr,
      roleSkipReassignOwnedAttr, roleSuperuserAttr, roleValidUntilAttr,
      roleRolesAttr }

\* The Default of each attribute in the resource schema (name is Required).
resourcePostgreSQLRole ==
    [ name                      |-> "r1",
      password                  |-> "",
      roles                     |-> {},
      encrypted_password        |-> TRUE,
      valid_until               |-> "infinity",
      connection_limit          |-> -1,
      superuser                 |-> FALSE,
      create_database           |-> FALSE,
      create_role               |-> FALSE,
      inherit                   |-> TRUE,
      login                     |-> FALSE,
      replication               |-> FALSE,
      bypass_row_level_security |-> FALSE,
      skip_drop_role            |-> FALSE,
      skip_reassign_owned       |-> FALSE ]

\* What d.Get gives for an attribute no state holds: the type's zero value.
ZeroState ==
    [ name                      |-> "",
      password                  |-> "",
      roles                     |-> {},
      encrypted_password        |-> FALSE,
      valid_until               |-> "",
      connection_limit          |-> 0,
      superuser                 |-> FALSE,
      create_database           |-> FALSE,
      create_role               |-> FALSE,
      inherit                   |-> FALSE,
      login                     |-> FALSE,
      replication               |-> FALSE,
      bypass_row_level_security |-> FALSE,
      skip_drop_role            |-> FALSE,
      skip_reassign_owned       |-> FALSE ]

\* A check that lets every value through.
validateConnLimitNone(value) == FALSE

\* validateConnLimit: whether it reports an error.
validateConnLimit(value) == value < -1

\* The values a configuration may declare, per attribute: the schema's
\* ValidateFunc stops a connection_limit that validateConnLimit reports.
AttrValues ==
    [ name                      |-> RoleNames \cup {""},
      password                  |-> {"", "p1", "null"},
      roles                     |-> SUBSET Groups,
      encrypted_password        |-> BOOLEAN,
      valid_until               |-> {"infinity", "Infinity", "t1", "T1", ""},
      connection_limit          |-> { v \in {-2, -1, 5} : ~validateConnLimit(v) },
      superuser                 |-> BOOLEAN,
      create_database           |-> BOOLEAN,
      create_role               |-> BOOLEAN,
      inherit                   |-> BOOLEAN,
      login                     |-> BOOLEAN,
      replication               |-> BOOLEAN,
      bypass_row_level_security |-> BOOLEAN,
      skip_drop_role            |-> BOOLEAN,
      skip_reassign_owned       |-> BOOLEAN ]

\* The configurations that set at most n attributes away from the defaults.
RECURSIVE Within(_)
Within(n) ==
    IF n = 0 THEN {resourcePostgreSQLRole}
    ELSE LET P == Within(n - 1)
         IN  P \cup UNION { { [c EXCEPT ![k] = v] : v \in AttrValues[k] } :
                            c \in P, k \in RoleAttrs }

\* The defaults with every combination of the two flags of Delete.
SkipConfigs ==
    { [resourcePostgreSQLRole EXCEPT ![roleSkipDropRoleAttr] = drop,
                                     ![roleSkipReassignOwnedAttr] = reassign] :
      drop \in BOOLEAN, reassign \in BOOLEAN }

\* The declared configurations the model draws from.
Configs == Within(MaxDiff) \cup SkipConfigs

-----------------------------------------------------------------------------
(* helpers.go: the functions the resources validate and quote with. A      *)
(* string whose characters matter is a sequence of one-character strings.  *)

\* The longest string drawn for a helper, in characters.
MaxLen == 3

\* The longest privilege list drawn for validatePrivileges.
MaxPrivs == 2

\* The sequences over A of length at most n.
Strings(A, n) == UNION { [1..k -> A] : k \in 0..n }

\* strings.Replace(s, old, new, -1) for a one-character old.
RECURSIVE strings_Replace(_, _, _)
strings_Replace(s, old, new) ==
    IF s = << >> THEN << >>
    ELSE (IF Head(s) = old THEN new ELSE << Head(s) >>)
         \o strings_Replace(Tail(s), old, new)

\* A quoting that doubles the single quotes alone.
pqQuoteLiteralQuotesOnly(in) == strings_Replace(in, "'", << "'", "'" >>)

pqQuoteLiteral(in) ==
    LET in1 == strings_Replace(in, "\\", << "\\", "\\" >>)
    IN  strings_Replace(in1, "'", << "'", "'" >>)

sliceContainsStr(haystack, needle) ==
    \E i \in 1..Len(haystack) : haystack[i] = needle

allowedPrivileges ==
    [ table    |-> << "ALL", "SELECT", "INSERT", "UPDATE", "DELETE", "TRUNCATE",
                      "REFERENCES", "TRIGGER" >>,
      sequence |-> << "ALL", "USAGE", "SELECT", "UPDATE" >> ]

\* A validation that looks the object type up and not the privileges.
validatePrivilegesTypeOnly(objectType, privileges) ==
    IF objectType \notin DOMAIN allowedPrivileges THEN "unknown object type" ELSE "nil"

\* validatePrivileges: the error it returns, "nil" for none.
validatePrivileges(objectType, privileges) ==
    IF objectType \notin DOMAIN allowedPrivileges THEN "unknown object type"
    ELSE LET allowed == allowedPrivileges[objectType] IN
         IF \E i \in 1..Len(privileges) : ~sliceContainsStr(allowed, privileges[i])
         THEN "not an allowed privilege"
         ELSE "nil"

\* No helper has been called.
NoHelper == [fn |-> "none", arg |-> << >>, out |-> << >>]

-----------------------------------------------------------------------------
(* Statements, as the handlers build them. *)

\* One option of CREATE ROLE / ALTER ROLE: the keyword, its string or integer
\* argument, and how the string argument is quoted in the statement text
\* ("literal": '<pqQuoteLiteral(val)>', "ident": pq.QuoteIdentifier(val)).
Opt(key, val, num, quote) == [key |-> key, val |-> val, num |-> num, quote |-> quote]
Tok(key) == Opt(key, "", 0, "none")

\* One statement: its kind, the role it targets (through pq.QuoteIdentifier), a
\* second identifier where it has one, and its options.
Stmt(k, role, arg, opts) == [kind |-> k, role |-> role, arg |-> arg, opts |-> opts]

strings_ToUpper(s) == IF s = "null" THEN "NULL" ELSE s
strings_ToLower(s) == IF s = "Infinity" THEN "infinity" ELSE s

-----------------------------------------------------------------------------
(* The server: what PostgreSQL does with each statement the handlers send. *)

\* The row CREATE ROLE makes when no option is given.
NewRow ==
    [ exists         |-> TRUE,
      rolsuper       |-> FALSE,
      rolinherit     |-> TRUE,
      rolcreaterole  |-> FALSE,
      rolcreatedb    |-> FALSE,
      rolcanlogin    |-> FALSE,
      rolreplication |-> FALSE,
      rolbypassrls   |-> FALSE,
      rolconnlimit   |-> -1,
      rolvaliduntil  |-> "infinity",
      passwd         |-> "",
      passenc        |-> FALSE,
      member         |-> {} ]

\* The entry of a name no role has.
NoRole == [NewRow EXCEPT !.exists = FALSE]

Exists(db, r) == r \in RoleNames /\ db[r].exists

\* A membership query that finds nothing.
GrantedRolesNone(db, r) == {}

\* The roles granted to role r, as information_schema.applicable_roles lists them.
GrantedRoles(db, r) == IF Exists(db, r) THEN db[r].member ELSE {}

\* An option the server's grammar rejects: a timestamp written as an identifier,
\* or a row-level-security keyword on a server without row-level security.
OptRejected(o, feats) ==
    \/ o.key = "VALID UNTIL" /\ o.quote # "literal"
    \/ o.key = "PASSWORD" /\ o.quote # "literal"
    \/ o.key \in {"BYPASSRLS", "NOBYPASSRLS"} /\ featureRLS \notin feats

\* rolvaliduntil as the server stores a timestamp text and a scan into a
\* string renders it: "t1" is a time written the way a configuration may write
\* it, "T1" the same time in the rendering of the scan.
PgTimestamp(v) ==
    CASE v = "t1"                          -> "T1"
      [] strings_ToLower(v) = "infinity"   -> "infinity"
      [] OTHER                             -> v

\* What pg_shadow shows of a password stored encrypted.
PgHash(p) == IF p = "" THEN "" ELSE "md5:" \o p

ApplyOpt(row, o) ==
    CASE o.key = "SUPERUSER"        -> [row EXCEPT !.rolsuper = TRUE]
      [] o.key = "NOSUPERUSER"      -> [row EXCEPT !.rolsuper = FALSE]
      [] o.key = "CREATEDB"         -> [row EXCEPT !.rolcreatedb = TRUE]
      [] o.key = "NOCREATEDB"       -> [row EXCEPT !.rolcreatedb = FALSE]
      [] o.key = "CREATEROLE"       -> [row EXCEPT !.rolcreaterole = TRUE]
      [] o.key = "NOCREATEROLE"     -> [row EXCEPT !.rolcreaterole = FALSE]
      [] o.key = "INHERIT"          -> [row EXCEPT !.rolinherit = TRUE]
      [] o.key = "NOINHERIT"        -> [row EXCEPT !.rolinherit = FALSE]
      [] o.key = "LOGIN"            -> [row EXCEPT !.rolcanlogin = TRUE]
      [] o.key = "NOLOGIN"          -> [row EXCEPT !.rolcanlogin = FALSE]
      [] o.key = "REPLICATION"      -> [row EXCEPT !.rolreplication = TRUE]
      [] o.key = "NOREPLICATION"    -> [row EXCEPT !.rolreplication = FALSE]
      [] o.key = "BYPASSRLS"        -> [row EXCEPT !.rolbypassrls = TRUE]
      [] o.key = "NOBYPASSRLS"      -> [row EXCEPT !.rolbypassrls = FALSE]
      [] o.key = "CONNECTION LIMIT" -> [row EXCEPT !.rolconnlimit = o.num]
      [] o.key = "VALID UNTIL"      -> [row EXCEPT !.rolvaliduntil = PgTimestamp(o.val)]
      [] o.key = "PASSWORD"         -> [row EXCEPT !.passwd = IF row.passenc THEN PgHash(o.val) ELSE o.val]
      [] o.key = "PASSWORD NULL"    -> [row EXCEPT !.passwd = ""]
      [] o.key = "ENCRYPTED"        -> [row EXCEPT !.passenc = TRUE]
      [] o.key = "UNENCRYPTED"      -> [row EXCEPT !.passenc = FALSE]
      [] OTHER                      -> row

RECURSIVE ApplyOpts(_, _)
ApplyOpts(row, opts) ==
    IF opts = << >> THEN row
    ELSE ApplyOpts(ApplyOpt(row, Head(opts)), Tail(opts))

\* Whether the server accepts statement s on catalog db.
PgAccepts(db, s, feats) ==
    /\ \A i \in 1..Len(s.opts) : ~OptRejected(s.opts[i], feats)
    /\ CASE s.kind = "CREATE ROLE" -> s.role \in RoleNames /\ ~Exists(db, s.role)
         [] s.kind = "RENAME"      -> Exists(db, s.role) /\ s.arg \in RoleNames
                                      /\ ~Exists(db, s.arg)
         [] s.kind \in {"GRANT", "REVOKE"} -> Exists(db, s.role) /\ s.arg \in Groups
         [] OTHER                  -> Exists(db, s.role)

\* The catalog after the server ran statement s (one it accepts) on db.
PgApply(db, s) ==
    CASE s.kind = "CREATE ROLE" -> [db EXCEPT ![s.role] = ApplyOpts(NewRow, s.opts)]
      [] s.kind = "ALTER ROLE"  -> [db EXCEPT ![s.role] = ApplyOpts(db[s.role], s.opts)]
      [] s.kind = "RENAME"      -> [db EXCEPT ![s.role] = NoRole, ![s.arg] = db[s.role]]
      [] s.kind = "GRANT"       -> [db EXCEPT ![s.role].member = @ \cup {s.arg}]
      [] s.kind = "REVOKE"      -> [db EXCEPT ![s.role].member = @ \ {s.arg}]
      [] s.kind = "DROP ROLE"   -> [db EXCEPT ![s.role] = NoRole]
      [] OTHER                  -> db

-----------------------------------------------------------------------------
(* schema.ResourceData, as the handlers use it: d.old is the state the        *)
(* resource was last saved with, d.new what d.Get reads (the configuration,   *)
(* then whatever d.Set wrote).                                                *)

\* A comparison that finds every attribute changed.
HasChangeAlways(k) == TRUE

HasChange(k) == d.old[k] # d.new[k]

\* d.GetOk: the value is set and is not the zero value of its type.
GetOk(dd, k) == dd.new[k] # ZeroState[k]

\* (*schema.Set).List(): the elements in the order of their hash codes.
HashString == [g \in Groups |-> IF g = "g1" THEN 2 ELSE 1]
Perms(S) == { q \in [1..Cardinality(S) -> S] : \A i, j \in 1..Cardinality(S) : i # j => q[i] # q[j] }
SetList(S) == CHOOSE q \in Perms(S) : \A i, j \in 1..Cardinality(S) : i < j => HashString[q[i]] < HashString[q[j]]

\* What the resource is saved as when a handler returns: nothing when the id is
\* empty, otherwise everything d.Get reads.
State(dd) ==
    IF dd.id = "" THEN [id |-> "", old |-> ZeroState, new |-> ZeroState]
    ELSE [id |-> dd.id, old |-> dd.new, new |-> dd.new]

-----------------------------------------------------------------------------
(* c.catalogLock, a sync.RWMutex. *)

Unlocked == [writer |-> FALSE, readers |-> 0]
\* A lock whose exclusive side never waits.
CanLockAlways == TRUE
CanLock  == ~lock.writer /\ lock.readers = 0
Lock     == [lock EXCEPT !.writer = TRUE]
\* A return that leaves the exclusive side taken.
UnlockForgotten == lock
Unlock   == [lock EXCEPT !.writer = FALSE]
CanRLock == ~lock.writer
RLock    == [lock EXCEPT !.readers = @ + 1]
RUnlock  == [lock EXCEPT !.readers = @ - 1]

-----------------------------------------------------------------------------
(* The handlers as the goroutines of one provider run them: Terraform      *)
(* calls the handlers of independent resources in parallel, and all of     *)
(* them share one Client and so one catalogLock.                           *)

\* How many goroutines call handlers at the same time.
NumProcs == 2

Procs == 1..NumProcs

Mutators == {"RoleCreate", "RoleUpdate", "RoleDelete", "ExtCreate", "ExtUpdate", "ExtDelete"}
Readers  == {"RoleRead", "RoleExists", "ExtRead", "ExtExists"}
Handlers == Mutators \cup Readers

\* The side of c.catalogLock each handler takes in its first two lines.
LockMode(o) ==
    IF o \in {"RoleRead", "RoleExists", "ExtRead"} THEN "shared" ELSE "exclusive"

\* A Create and an Update whose read-back goes through the handler Read,
\* which takes the lock.
BodyReadRelocks(o) ==
    CASE o = "RoleCreate" -> << "begin", "stmt", "commit", "rlock", "query" >>
      [] o = "RoleUpdate" -> << "begin", "stmt", "commit", "rlock", "query" >>
      [] o = "RoleDelete" -> << "begin", "stmt", "commit" >>
      [] o = "ExtCreate"  -> << "stmt", "rlock", "query" >>
      [] o = "ExtUpdate"  -> << "begin", "stmt", "rlock", "query" >>
      [] o = "ExtDelete"  -> << "stmt" >>
      [] OTHER            -> << "query" >>

\* What each handler does between taking the lock and returning: "begin"
\* opens its transaction, "stmt" executes its statements, "commit" commits,
\* "query" reads the catalog through the pool.
Body(o) ==
    CASE o = "RoleCreate" -> << "begin", "stmt", "commit", "query" >>
      [] o = "RoleUpdate" -> << "begin", "stmt", "commit", "query" >>
      [] o = "RoleDelete" -> << "begin", "stmt", "commit" >>
      [] o = "ExtCreate"  -> << "stmt", "query" >>
      [] o = "ExtUpdate"  -> << "begin", "stmt", "query" >>
      [] o = "ExtDelete"  -> << "stmt" >>
      [] OTHER            -> << "query" >>

\* A goroutine that is in no handler. `behind` holds the writers that were
\* waiting for the lock when a reader called RLock: sync.RWMutex keeps a
\* reader that arrives while a writer waits out until that writer is done.
NoCall == [op |-> "none", at |-> 0, holds |-> "none", err |-> FALSE, behind |-> {}]

-----------------------------------------------------------------------------
(* database/sql transactions. *)

\* txn.Exec: the outcomes a statement can have: the server rejects what its
\* catalog does not allow, and any statement may fail for a reason outside the
\* model (permissions, dependent objects, the connection).
Outcomes(s) == IF PgAccepts(view, s, features) THEN BOOLEAN ELSE {FALSE}

\* txn.Commit: the transaction's view becomes the catalog.
TxCommit(cat, v) == v

\* A rollback that keeps what the transaction did.
TxRollbackKeeps(cat, v) == v

\* txn.Rollback (deferred in every handler that opens a transaction): the
\* catalog stays what it was, whatever the transaction did.
TxRollback(cat, v) == cat

\* A statement sent inside the transaction; on success the handler goes on at
\* `next`, on failure it returns the error.
\* A statement whose failure is noted while the handler goes on.
ExecStepContinues(s, next) ==
    /\ log' = Append(log, s)
    /\ pc' = next
    /\ \E ok \in Outcomes(s) :
         IF ok
         THEN view' = PgApply(view, s) /\ fail' = fail
         ELSE view' = view /\ fail' = "stmt"

ExecStep(s, next) ==
    /\ log' = Append(log, s)
    /\ \E ok \in Outcomes(s) :
         IF ok
         THEN /\ view' = PgApply(view, s)
              /\ pc' = next
              /\ fail' = fail
         ELSE /\ view' = view
              /\ pc' = "return"
              /\ fail' = "stmt"

\* The start of every handler: the invocation's bookkeeping.
Invoke(o, c) ==
    /\ kind = "role"
    /\ pc = "idle"
    /\ ops < MaxOps
    /\ ops' = ops + 1
    /\ last' = last
    /\ synced' = synced
    /\ op' = o
    /\ cfg' = c
    /\ log' = << >>
    /\ pre' = catalog
    /\ ret' = "none"
    /\ todo' = << >>
    /\ view' = catalog

\* c.DB().Begin(), which may fail.
BeginTxn(first) ==
    \E ok \in BOOLEAN :
        IF ok
        THEN txn' = TRUE /\ pc' = first /\ fail' = "none"
        ELSE txn' = FALSE /\ pc' = "return" /\ fail' = "begin"

-----------------------------------------------------------------------------
(* resourcePostgreSQLRoleCreate *)

boolOpts ==
    << << roleSuperuserAttr,   "CREATEDB",    "NOCREATEDB" >>,
       << roleCreateRoleAttr,  "CREATEROLE",  "NOCREATEROLE" >>,
       << roleInheritAttr,     "INHERIT",     "NOINHERIT" >>,
       << roleLoginAttr,       "LOGIN",       "NOLOGIN" >>,
       << roleReplicationAttr, "REPLICATION", "NOREPLICATION" >> >>

rlsOpt == << << roleBypassRLSAttr, "BYPASSRLS", "NOBYPASSRLS" >> >>

\* The options of the CREATE ROLE statement, in the order they are appended.
createOpts(dd, feats) ==
    LET pw == dd.new[rolePasswordAttr]
        vu == dd.new[roleValidUntilAttr]
        passwordOpts ==
            IF ~GetOk(dd, rolePasswordAttr) \/ pw = "" THEN << >>
            ELSE IF strings_ToUpper(pw) = "NULL" THEN << Tok("PASSWORD NULL") >>
            ELSE << Tok(IF dd.new[roleEncryptedPassAttr] THEN "ENCRYPTED" ELSE "UNENCRYPTED"),
                    Opt("PASSWORD", pw, 0, "literal") >>
        validUntilOpts ==
            IF ~GetOk(dd, roleValidUntilAttr) \/ vu = "" THEN << >>
            ELSE IF vu = "" \/ strings_ToLower(vu) = "infinity"
                 THEN << Opt("VALID UNTIL", "infinity", 0, "literal") >>
                 ELSE << Opt("VALID UNTIL", vu, 0, "ident") >>
        intOpts == << Opt("CONNECTION LIMIT", "", dd.new[roleConnLimitAttr], "none") >>
        bools == IF featureRLS \in feats THEN boolOpts \o rlsOpt ELSE boolOpts
        boolToks == [ i \in 1..Len(bools) |->
                        Tok(IF dd.new[bools[i][1]] THEN bools[i][2] ELSE bools[i][3]) ]
    IN  passwordOpts \o validUntilOpts \o intOpts \o boolToks

\* The calls resourcePostgreSQLRoleCreate makes once its transaction is open.
\* The calls of Create with the memberships granted before the role is created.
CreateCallsGrantFirst == << "grantRoles", "createRole", "commit" >>

resourcePostgreSQLRoleCreateCalls == << "createRole", "grantRoles", "commit" >>

\* An Update that renames after it has altered two attributes.
UpdateCallsRenameLate ==
    << "setRoleBypassRLS", "setRoleConnLimit", "setRoleName", "setRoleCreateDB",
       "setRoleCreateRole", "setRoleInherit", "setRoleLogin", "setRoleReplication",
       "setRoleSuperuser", "setRoleValidUntil", "revokeRoles", "grantRoles", "commit" >>

\* An Update that grants before it revokes.
UpdateCallsGrantFirst ==
    << "setRoleName", "setRoleBypassRLS", "setRoleConnLimit", "setRoleCreateDB",
       "setRoleCreateRole", "setRoleInherit", "setRoleLogin", "setRoleReplication",
       "setRoleSuperuser", "setRoleValidUntil", "grantRoles", "revokeRoles", "commit" >>

\* An Update that revokes and never grants.
UpdateCallsWithoutGrant ==
    << "setRoleName", "setRoleBypassRLS", "setRoleConnLimit", "setRoleCreateDB",
       "setRoleCreateRole", "setRoleInherit", "setRoleLogin", "setRoleReplication",
       "setRoleSuperuser", "setRoleValidUntil", "revokeRoles", "commit" >>

\* An Update that reads the role back without committing its transaction.
UpdateCallsWithoutCommit ==
    << "setRoleName", "setRoleBypassRLS", "setRoleConnLimit", "setRoleCreateDB",
       "setRoleCreateRole", "setRoleInherit", "setRoleLogin", "setRoleReplication",
       "setRoleSuperuser", "setRoleValidUntil", "revokeRoles", "grantRoles", "readImpl" >>

\* An Update that changes the memberships before it alters the attributes.
UpdateCallsMembershipFirst ==
    << "revokeRoles", "grantRoles", "setRoleName", "setRoleBypassRLS", "setRoleConnLimit",
       "setRoleCreateDB", "setRoleCreateRole", "setRoleInherit", "setRoleLogin",
       "setRoleReplication", "setRoleSuperuser", "setRoleValidUntil", "commit" >>

\* The calls resourcePostgreSQLRoleUpdate makes once its transaction is open.
resourcePostgreSQLRoleUpdateCalls ==
    << "setRoleName", "setRoleBypassRLS", "setRoleConnLimit", "setRoleCreateDB",
       "setRoleCreateRole", "setRoleInherit", "setRoleLogin", "setRoleReplication",
       "setRoleSuperuser", "setRoleValidUntil", "revokeRoles", "grantRoles", "commit" >>

Calls(o) ==
    IF o = "RoleCreate" THEN resourcePostgreSQLRoleCreateCalls
    ELSE resourcePostgreSQLRoleUpdateCalls

\* The call that follows `call` in the running handler.
After(call) ==
    LET cs == Calls(op)
        i == CHOOSE i \in 1..Len(cs) : cs[i] = call
    IN  cs[i + 1]

\* roleName := d.Get(roleNameAttr).(string), as every statement builder reads it.
roleName(dd) == dd.new[roleNameAttr]

\* What d.Get reads once a configuration is applied to the saved state: the
\* configuration, and for a Computed attribute the configuration leaves
\* unset, the saved value.
Planned(old, c, computed) ==
    [ k \in DOMAIN c |-> IF k \in computed /\ c[k] = "" THEN old[k] ELSE c[k] ]

resourcePostgreSQLRoleCreate ==
    /\ kind = "role"
    /\ d.id = ""
    /\ CanLock
    /\ \E c \in Configs :
         /\ Invoke("RoleCreate", c)
         /\ d' = [id |-> "", old |-> ZeroState, new |-> c]
    /\ lock' = Lock
    /\ BeginTxn(resourcePostgreSQLRoleCreateCalls[1])
    /\ UNCHANGED << nsp, dacl, helper, procs, kind, features, catalog, extcat, extview >>

RoleCreateExec ==
    /\ pc = "createRole"
    /\ LET opts == createOpts(d, features)
           with == IF Len(opts) > 0 /\ featureSupported(featureCreateRoleWith)
                   THEN "WITH" ELSE ""
       IN  ExecStep(Stmt("CREATE ROLE", roleName(d), with, opts), After("createRole"))
    /\ UNCHANGED << nsp, dacl, helper, procs, kind, features, catalog, txn, lock, d, op, todo, pre, ret, cfg, extcat, extview, ops, last, synced >>

\* grantRoles, entered: the roles to grant, in the order of the set's list.
grantRoles ==
    /\ pc = "grantRoles"
    /\ LET roles == SetList(d.new[roleRolesAttr]) IN
       /\ todo' = roles
       /\ pc' = IF roles = << >> THEN After("grantRoles") ELSE "grantLoop"
    /\ UNCHANGED << nsp, dacl, helper, procs, kind, features, catalog, txn, view, lock, d, op, log, pre, ret, fail, cfg, extcat, extview, ops, last, synced >>

\* grantRoles, its loop: one GRANT per role.
grantLoop ==
    /\ pc = "grantLoop"
    /\ todo # << >>
    /\ ExecStep(Stmt("GRANT", roleName(d), Head(todo), << >>),
                IF Tail(todo) = << >> THEN After("grantRoles") ELSE "grantLoop")
    /\ todo' = Tail(todo)
    /\ UNCHANGED << nsp, dacl, helper, procs, kind, features, catalog, txn, lock, d, op, pre, ret, cfg, extcat, extview, ops, last, synced >>

\* A commit after which Create and Update return without reading the role back.
CommitWithoutReadBack ==
    /\ pc = "commit"
    /\ log' = Append(log, Stmt("COMMIT", "", "", << >>))
    /\ txn' = FALSE
    /\ \E ok \in BOOLEAN :
         IF ok
         THEN /\ catalog' = TxCommit(catalog, view)
              /\ fail' = fail
              /\ d' = CASE op = "RoleCreate" -> [d EXCEPT !.id = roleName(d)]
                        [] op = "RoleDelete" -> [d EXCEPT !.id = ""]
                        [] OTHER -> d
              /\ pc' = "return"
         ELSE /\ catalog' = catalog
              /\ fail' = "commit"
              /\ d' = d
              /\ pc' = "return"
    /\ view' = catalog'
    /\ UNCHANGED << nsp, dacl, helper, procs, kind, features, lock, op, todo, pre, ret, cfg, extcat, extview, ops, last, synced >>

\* A commit after which Create sets the id, and Delete clears it, whether it
\* succeeded or not.
CommitSetsIdAnyway ==
    /\ pc = "commit"
    /\ log' = Append(log, Stmt("COMMIT", "", "", << >>))
    /\ txn' = FALSE
    /\ d' = CASE op = "RoleCreate" -> [d EXCEPT !.id = roleName(d)]
              [] op = "RoleDelete" -> [d EXCEPT !.id = ""]
              [] OTHER -> d
    /\ \E ok \in BOOLEAN :
         IF ok
         THEN /\ catalog' = TxCommit(catalog, view)
              /\ fail' = fail
              /\ pc' = IF op = "RoleDelete" THEN "return" ELSE "readImpl"
         ELSE /\ catalog' = catalog
              /\ fail' = "commit"
              /\ pc' = "return"
    /\ view' = catalog'
    /\ UNCHANGED << nsp, dacl, helper, procs, kind, features, lock, op, todo, pre, ret, cfg, extcat, extview, ops, last, synced >>

\* txn.Commit() and what each handler does right after it succeeded.
Commit ==
    /\ pc = "commit"
    /\ log' = Append(log, Stmt("COMMIT", "", "", << >>))
    /\ txn' = FALSE
    /\ \E ok \in BOOLEAN :
         IF ok
         THEN /\ catalog' = TxCommit(catalog, view)
              /\ fail' = fail
              /\ d' = CASE op = "RoleCreate" -> [d EXCEPT !.id = roleName(d)]
                        [] op = "RoleDelete" -> [d EXCEPT !.id = ""]
                        [] OTHER -> d
              /\ pc' = IF op = "RoleDelete" THEN "return" ELSE "readImpl"
         ELSE /\ catalog' = catalog
              /\ fail' = "commit"
              /\ d' = d
              /\ pc' = "return"
    /\ view' = catalog'
    /\ UNCHANGED << nsp, dacl, helper, procs, kind, features, lock, op, todo, pre, ret, cfg, extcat, extview, ops, last, synced >>

-----------------------------------------------------------------------------
(* resourcePostgreSQLRoleReadImpl *)

\* The query of the read that fails, if any.
ReadFaults == {"none", "roles", "rls", "shadow"}

\* A read that asks for the bypass flag whatever the server supports.
ReadImplUngated(dd, db, feats, fault) ==
    IF fault = "roles" THEN [d |-> dd, err |-> "read"]
    ELSE IF ~Exists(db, dd.id) THEN [d |-> [dd EXCEPT !.id = ""], err |-> "none"]
    ELSE IF fault = "rls" THEN [d |-> dd, err |-> "read"]
    ELSE LET row == db[dd.id]
             n == [dd.new EXCEPT
                     ![roleNameAttr] = dd.id,
                     ![roleConnLimitAttr] = row.rolconnlimit,
                     ![roleCreateDBAttr] = row.rolcreatedb,
                     ![roleCreateRoleAttr] = row.rolcreaterole,
                     ![roleEncryptedPassAttr] = TRUE,
                     ![roleInheritAttr] = row.rolinherit,
                     ![roleLoginAttr] = row.rolcanlogin,
                     ![roleReplicationAttr] = row.rolreplication,
                     ![roleSuperuserAttr] = row.rolsuper,
                     ![roleValidUntilAttr] = row.rolvaliduntil,
                     ![roleRolesAttr] = row.member,
                     ![roleBypassRLSAttr] = row.rolbypassrls]
         IN  [d |-> [id |-> dd.id, old |-> dd.old, new |-> n], err |-> "none"]

resourcePostgreSQLRoleReadImpl(dd, db, feats, fault) ==
    LET roleID == dd.id IN
    IF fault = "roles" THEN [d |-> dd, err |-> "read"]
    ELSE IF ~Exists(db, roleID) THEN [d |-> [dd EXCEPT !.id = ""], err |-> "none"]
    ELSE
    LET row == db[roleID]
        n1 == [dd.new EXCEPT
                 ![roleNameAttr] = roleID,
                 ![roleConnLimitAttr] = row.rolconnlimit,
                 ![roleCreateDBAttr] = row.rolcreatedb,
                 ![roleCreateRoleAttr] = row.rolcreaterole,
                 ![roleEncryptedPassAttr] = TRUE,
                 ![roleInheritAttr] = row.rolinherit,
                 ![roleLoginAttr] = row.rolcanlogin,
                 ![roleReplicationAttr] = row.rolreplication,
                 ![roleSuperuserAttr] = row.rolsuper,
                 ![roleValidUntilAttr] = row.rolvaliduntil,
                 ![roleRolesAttr] = row.member]
        n2 == IF featureRLS \in feats
              THEN [n1 EXCEPT ![roleBypassRLSAttr] = row.rolbypassrls] ELSE n1
        n3 == [n2 EXCEPT ![rolePasswordAttr] = row.passwd]
    IN  IF featureRLS \in feats /\ fault = "rls"
        THEN [d |-> [dd EXCEPT !.new = n1], err |-> "read"]
        ELSE IF ~row.rolsuper
        THEN [d |-> [id |-> roleID, old |-> dd.old, new |-> n2], err |-> "none"]
        ELSE IF fault = "shadow"
        THEN [d |-> [id |-> roleID, old |-> dd.old, new |-> n2], err |-> "read"]
        \* pg_shadow lists only the roles that can log in: for any other role
        \* the query has no row, and sql.ErrNoRows is returned as an error
        ELSE IF ~row.rolcanlogin
        THEN [d |-> [id |-> roleID, old |-> dd.old, new |-> n2], err |-> "norows"]
        ELSE [d |-> [id |-> roleID, old |-> dd.old, new |-> n3], err |-> "none"]

\* The read at the end of Create and Update, and the whole of Read.
ReadImpl ==
    /\ pc = "readImpl"
    /\ kind = "role"
    /\ \E fault \in ReadFaults :
         LET r == resourcePostgreSQLRoleReadImpl(d, catalog, features, fault)
         IN  d' = r.d /\ fail' = r.err
    /\ pc' = "return"
    /\ UNCHANGED << nsp, dacl, helper, procs, kind, features, catalog, txn, view, lock, op, todo, log, pre, ret, cfg, extcat, extview, ops, last, synced >>

resourcePostgreSQLRoleRead ==
    /\ kind = "role"
    /\ d.id # ""
    /\ CanRLock
    /\ Invoke("RoleRead", d.old)
    /\ lock' = RLock
    /\ pc' = "readImpl"
    /\ fail' = "none"
    /\ UNCHANGED << nsp, dacl, helper, procs, kind, features, catalog, txn, d, extcat, extview >>

resourcePostgreSQLRoleExists ==
    /\ kind = "role"
    /\ d.id # ""
    /\ CanRLock
    /\ Invoke("RoleExists", d.old)
    /\ lock' = RLock
    /\ pc' = "exists"
    /\ fail' = "none"
    /\ UNCHANGED << nsp, dacl, helper, procs, kind, features, catalog, txn, d, extcat, extview >>

RoleExistsQuery ==
    /\ pc = "exists"
    /\ kind = "role"
    /\ \E ok \in BOOLEAN :
         IF ok
         THEN fail' = "none" /\ ret' = IF Exists(catalog, d.id) THEN "true" ELSE "false"
         ELSE fail' = "read" /\ ret' = "err"
    /\ pc' = "return"
    /\ UNCHANGED << nsp, dacl, helper, procs, kind, features, catalog, txn, view, lock, d, op, todo, log, pre, cfg, extcat, extview, ops, last, synced >>

-----------------------------------------------------------------------------
(* resourcePostgreSQLRoleUpdate *)

resourcePostgreSQLRoleUpdate ==
    /\ kind = "role"
    /\ d.id # ""
    /\ CanLock
    /\ \E c \in Configs :
         /\ Invoke("RoleUpdate", c)
         /\ d' = [d EXCEPT !.new = Planned(d.old, c, {rolePasswordAttr})]
    /\ lock' = Lock
    /\ BeginTxn(resourcePostgreSQLRoleUpdateCalls[1])
    /\ UNCHANGED << nsp, dacl, helper, procs, kind, features, catalog, extcat, extview >>

\* What every step of Update leaves alone.
UpdateFrame == UNCHANGED << nsp, dacl, helper, procs, kind, features, catalog, txn, lock, op, todo, pre, ret, cfg, extcat, extview, ops, last, synced >>

\* A step that has nothing to send.
Skip(next) == pc' = next /\ UNCHANGED << view, log, fail >>

\* A step that rejects the configuration.
Reject(why) == pc' = "return" /\ fail' = why /\ UNCHANGED << view, log >>

setRoleName ==
    /\ pc = "setRoleName"
    /\ LET o == d.old[roleNameAttr]
           n == d.new[roleNameAttr]
       IN  IF ~HasChange(roleNameAttr) THEN Skip(After("setRoleName")) /\ d' = d
           ELSE IF n = "" THEN Reject("validation") /\ d' = d
           ELSE /\ ExecStep(Stmt("RENAME", o, n, << >>), After("setRoleName"))
                /\ d' = IF fail' = fail THEN [d EXCEPT !.id = n] ELSE d
    /\ UpdateFrame

\* A setRoleBypassRLS that does not ask the server what it supports.
setRoleBypassRLSUnchecked ==
    /\ pc = "setRoleBypassRLS"
    /\ IF ~HasChange(roleBypassRLSAttr) THEN Skip(After("setRoleBypassRLS"))
       ELSE ExecStep(Stmt("ALTER ROLE", roleName(d), "WITH",
                          << Tok(IF d.new[roleBypassRLSAttr] THEN "BYPASSRLS" ELSE "NOBYPASSRLS") >>),
                     After("setRoleBypassRLS"))
    /\ d' = d
    /\ UpdateFrame

setRoleBypassRLS ==
    /\ pc = "setRoleBypassRLS"
    /\ IF ~HasChange(roleBypassRLSAttr) THEN Skip(After("setRoleBypassRLS"))
       ELSE IF ~featureSupported(featureRLS) THEN Reject("unsupported")
       ELSE ExecStep(Stmt("ALTER ROLE", roleName(d), "WITH",
                          << Tok(IF d.new[roleBypassRLSAttr] THEN "BYPASSRLS" ELSE "NOBYPASSRLS") >>),
                     After("setRoleBypassRLS"))
    /\ d' = d
    /\ UpdateFrame

setRoleConnLimit ==
    /\ pc = "setRoleConnLimit"
    /\ IF ~HasChange(roleConnLimitAttr) THEN Skip(After("setRoleConnLimit"))
       ELSE ExecStep(Stmt("ALTER ROLE", roleName(d), "",
                          << Opt("CONNECTION LIMIT", "", d.new[roleConnLimitAttr], "none") >>),
                     After("setRoleConnLimit"))
    /\ d' = d
    /\ UpdateFrame

setRoleCreateDB ==
    /\ pc = "setRoleCreateDB"
    /\ IF ~HasChange(roleCreateDBAttr) THEN Skip(After("setRoleCreateDB"))
       ELSE ExecStep(Stmt("ALTER ROLE", roleName(d), "WITH",
                          << Tok(IF d.new[roleCreateDBAttr] THEN "CREATEDB" ELSE "NOCREATEDB") >>),
                     After("setRoleCreateDB"))
    /\ d' = d
    /\ UpdateFrame

setRoleCreateRole ==
    /\ pc = "setRoleCreateRole"
    /\ IF ~HasChange(roleCreateRoleAttr) THEN Skip(After("setRoleCreateRole"))
       ELSE ExecStep(Stmt("ALTER ROLE", roleName(d), "WITH",
                          << Tok(IF d.new[roleCreateRoleAttr] THEN "CREATEROLE" ELSE "NOCREATEROLE") >>),
                     After("setRoleCreateRole"))
    /\ d' = d
    /\ UpdateFrame

setRoleInherit ==
    /\ pc = "setRoleInherit"
    /\ IF ~HasChange(roleInheritAttr) THEN Skip(After("setRoleInherit"))
       ELSE ExecStep(Stmt("ALTER ROLE", roleName(d), "WITH",
                          << Tok(IF d.new[roleInheritAttr] THEN "INHERIT" ELSE "NOINHERIT") >>),
                     After("setRoleInherit"))
    /\ d' = d
    /\ UpdateFrame

\* A setRoleLogin without its d.HasChange guard.
setRoleLoginAlways ==
    /\ pc = "setRoleLogin"
    /\ ExecStep(Stmt("ALTER ROLE", roleName(d), "WITH",
                     << Tok(IF d.new[roleLoginAttr] THEN "LOGIN" ELSE "NOLOGIN") >>),
                After("setRoleLogin"))
    /\ d' = d
    /\ UpdateFrame

setRoleLogin ==
    /\ pc = "setRoleLogin"
    /\ IF ~HasChange(roleLoginAttr) THEN Skip(After("setRoleLogin"))
       ELSE ExecStep(Stmt("ALTER ROLE", roleName(d), "WITH",
                          << Tok(IF d.new[roleLoginAttr] THEN "LOGIN" ELSE "NOLOGIN") >>),
                     After("setRoleLogin"))
    /\ d' = d
    /\ UpdateFrame

setRoleReplication ==
    /\ pc = "setRoleReplication"
    /\ IF ~HasChange(roleReplicationAttr) THEN Skip(After("setRoleReplication"))
       ELSE ExecStep(Stmt("ALTER ROLE", roleName(d), "WITH",
                          << Tok(IF d.new[roleReplicationAttr] THEN "REPLICATION" ELSE "NOREPLICATION") >>),
                     After("setRoleReplication"))
    /\ d' = d
    /\ UpdateFrame

setRoleSuperuser ==
    /\ pc = "setRoleSuperuser"
    /\ IF ~HasChange(roleSuperuserAttr) THEN Skip(After("setRoleSuperuser"))
       ELSE ExecStep(Stmt("ALTER ROLE", roleName(d), "WITH",
                          << Tok(IF d.new[roleSuperuserAttr] THEN "SUPERUSER" ELSE "NOSUPERUSER") >>),
                     After("setRoleSuperuser"))
    /\ d' = d
    /\ UpdateFrame

setRoleValidUntil ==
    /\ pc = "setRoleValidUntil"
    /\ LET validUntil == d.new[roleValidUntilAttr]
           v == IF strings_ToLower(validUntil) = "infinity" THEN "infinity" ELSE validUntil
       IN  IF ~HasChange(roleValidUntilAttr) THEN Skip(After("setRoleValidUntil"))
           ELSE IF validUntil = "" THEN Skip(After("setRoleValidUntil"))
           ELSE ExecStep(Stmt("ALTER ROLE", roleName(d), "",
                              << Opt("VALID UNTIL", v, 0, "literal") >>),
                         After("setRoleValidUntil"))
    /\ d' = d
    /\ UpdateFrame

\* revokeRoles, first half: the roles the transaction sees granted, in the
\* order the server happens to return them.
revokeRoles ==
    /\ pc = "revokeRoles"
    /\ LET role == roleName(d) IN
       /\ log' = Append(log, Stmt("SELECT ROLES", role, "", << >>))
       /\ \E ok \in BOOLEAN :
            IF ok
            THEN \E grantedRoles \in Perms(GrantedRoles(view, role)) :
                    /\ fail' = fail
                    /\ todo' = grantedRoles
                    /\ pc' = IF grantedRoles = << >>
                             THEN After("revokeRoles") ELSE "revokeLoop"
            ELSE pc' = "return" /\ fail' = "stmt" /\ todo' = todo
    /\ UNCHANGED << nsp, dacl, helper, procs, kind, features, catalog, txn, view, lock, d, op, pre, ret, cfg, extcat, extview, ops, last, synced >>

\* revokeRoles, second half: one REVOKE per role found.
revokeLoop ==
    /\ pc = "revokeLoop"
    /\ todo # << >>
    /\ ExecStep(Stmt("REVOKE", roleName(d), Head(todo), << >>),
                IF Tail(todo) = << >> THEN After("revokeRoles") ELSE "revokeLoop")
    /\ todo' = Tail(todo)
    /\ UNCHANGED << nsp, dacl, helper, procs, kind, features, catalog, txn, lock, d, op, pre, ret, cfg, extcat, extview, ops, last, synced >>

-----------------------------------------------------------------------------
(* resourcePostgreSQLRoleDelete *)

\* c.config.Username, the user the client connects as.
configUsername == "postgres"

\* The statements of a Delete that does not look at the skip flags.
deleteQueriesAll(dd, feats) ==
    << Stmt("REASSIGN OWNED", roleName(dd), configUsername, << >>),
       Stmt("DROP OWNED", roleName(dd), "", << >>),
       Stmt("DROP ROLE", roleName(dd), "", << >>) >>

\* The statements of a Delete that drops the role before it hands on what the
\* role owns.
deleteQueriesDropFirst(dd, feats) ==
    (IF ~dd.new[roleSkipDropRoleAttr]
     THEN << Stmt("DROP ROLE", roleName(dd), "", << >>) >> ELSE << >>)
    \o (IF ~dd.new[roleSkipReassignOwnedAttr]
        THEN << Stmt("REASSIGN OWNED", roleName(dd), configUsername, << >>),
                Stmt("DROP OWNED", roleName(dd), "", << >>) >>
        ELSE << >>)

deleteQueries(dd, feats) ==
    LET role == roleName(dd)
        reassign ==
            IF ~dd.new[roleSkipReassignOwnedAttr]
            THEN << Stmt("REASSIGN OWNED", role,
                         IF featureReassignOwnedCurrentUser \in feats
                         THEN "CURRENT_USER" ELSE configUsername, << >>),
                    Stmt("DROP OWNED", role, "", << >>) >>
            ELSE << >>
        drop ==
            IF ~dd.new[roleSkipDropRoleAttr]
            THEN << Stmt("DROP ROLE", role, "", << >>) >>
            ELSE << >>
    IN  reassign \o drop

resourcePostgreSQLRoleDelete ==
    /\ kind = "role"
    /\ d.id # ""
    /\ CanLock
    /\ Invoke("RoleDelete", d.old)
    /\ lock' = Lock
    /\ BeginTxn("delete")
    /\ UNCHANGED << nsp, dacl, helper, procs, kind, features, catalog, d, extcat, extview >>

RoleDeleteQueries ==
    /\ pc = "delete"
    /\ LET queries == deleteQueries(d, features) IN
       /\ todo' = queries
       /\ IF Len(queries) > 0
          THEN pc' = "deleteLoop" /\ d' = d
          ELSE pc' = "return" /\ d' = [d EXCEPT !.id = ""]
    /\ UNCHANGED << nsp, dacl, helper, procs, kind, features, catalog, txn, view, lock, op, log, pre, ret, fail, cfg, extcat, extview, ops, last, synced >>

RoleDeleteExec ==
    /\ pc = "deleteLoop"
    /\ todo # << >>
    /\ ExecStep(Head(todo), IF Tail(todo) = << >> THEN "commit" ELSE "deleteLoop")
    /\ todo' = Tail(todo)
    /\ UNCHANGED << nsp, dacl, helper, procs, kind, features, catalog, txn, lock, d, op, pre, ret, cfg, extcat, extview, ops, last, synced >>

-----------------------------------------------------------------------------
(* The end of every handler. *)

IsReader(o) == o \in {"RoleRead", "RoleExists"}

\* The deferred calls run (txn.Rollback, then the unlock), the handler returns
\* and the resource is saved as the handler left it.
Return ==
    /\ pc = "return"
    /\ kind = "role"
    /\ catalog' = IF txn THEN TxRollback(catalog, view) ELSE catalog
    /\ txn' = FALSE
    /\ view' = catalog'
    /\ lock' = IF IsReader(op) THEN RUnlock ELSE Unlock
    /\ ret' = IF op = "RoleExists" THEN ret ELSE IF fail = "none" THEN "ok" ELSE "err"
    /\ d' = IF op = "RoleExists"
            THEN (IF ret = "false" THEN State([d EXCEPT !.id = ""]) ELSE d)
            ELSE State(d)
    /\ pc' = "done"
    /\ UNCHANGED << nsp, dacl, helper, procs, kind, features, op, todo, log, pre, fail, cfg, extcat, extview, ops, last, synced >>

-----------------------------------------------------------------------------
(* The extension resource.  Names and ids are sequences of characters, so    *)
(* that an id can be built and split the way the handlers do.                *)

extNameAttr     == "name"
extDatabaseAttr == "database"
extSchemaAttr   == "schema"
extVersionAttr  == "version"

\* Extension names as strings of characters: a plain one, and one with the
\* '-' that names such as uuid-ossp hold.
ExtNames  == { << "e" >>, << "u", "-", "o" >> }
Databases == { << "d" >> }
Schemas   == { "public", "foo" }
Versions  == { "1.0", "1.1" }
LatestVersion == "1.1"

ExtZeroState == [name |-> << >>, database |-> << >>, schema |-> "", version |-> ""]

\* The configurations of the extension the model draws from: schema and
\* version are Optional.
resourcePostgreSQLExtension ==
    [ name : ExtNames, database : Databases,
      schema : Schemas \cup {""}, version : Versions \cup {""} ]

NoExt == [exists |-> FALSE, schema |-> "", version |-> ""]

ExtStmt(k, ext, arg) == [kind |-> k, ext |-> ext, arg |-> arg]

\* Whether the server accepts statement s on pg_extension x.
ExtAccepts(x, s) ==
    /\ s.ext \in ExtNames
    /\ CASE s.kind = "CREATE EXTENSION" ->
                /\ ~x.exists
                /\ s.arg.schema \in Schemas \cup {""}
                /\ s.arg.version \in Versions \cup {""}
         [] s.kind = "SET SCHEMA" -> x.exists /\ s.arg \in Schemas
         [] s.kind = "UPDATE"     -> x.exists /\ s.arg \in Versions \cup {""}
         [] OTHER                 -> x.exists

OrDefault(v, dflt) == IF v = "" THEN dflt ELSE v

\* pg_extension after the server ran statement s (one it accepts) on x.
ExtApply(x, s) ==
    CASE s.kind = "CREATE EXTENSION" ->
            [exists |-> TRUE, schema |-> OrDefault(s.arg.schema, "public"),
             version |-> OrDefault(s.arg.version, LatestVersion)]
      [] s.kind = "SET SCHEMA" -> [x EXCEPT !.schema = s.arg]
      [] s.kind = "UPDATE"     -> [x EXCEPT !.version = OrDefault(s.arg, LatestVersion)]
      [] s.kind = "DROP EXTENSION" -> NoExt
      [] OTHER -> x

ExtOutcomes(x, s) == IF ExtAccepts(x, s) THEN BOOLEAN ELSE {FALSE}

\* strings.Split(s, "-")
RECURSIVE Split(_)
Split(s) ==
    IF \A i \in 1..Len(s) : s[i] # "-" THEN << s >>
    ELSE LET i == CHOOSE i \in 1..Len(s) : s[i] = "-" /\ \A j \in 1..(i - 1) : s[j] # "-"
         IN  << SubSeq(s, 1, i - 1) >> \o Split(SubSeq(s, i + 1, Len(s)))

generateExtID(dd) == dd.new[extDatabaseAttr] \o << "-" >> \o dd.new[extNameAttr]

\* A getExtNames that takes an id of any number of segments for the name of
\* nothing.
getExtNamesLenient(dd) ==
    LET parsed == Split(dd.id) IN
    IF dd.new[extNameAttr] = << >>
    THEN IF Len(parsed) # 2
         THEN [database |-> << >>, extName |-> << >>, err |-> FALSE]
         ELSE [database |-> parsed[1], extName |-> parsed[2], err |-> FALSE]
    ELSE [database |-> dd.new[extDatabaseAttr], extName |-> dd.new[extNameAttr], err |-> FALSE]

\* getExtNames: the database and the extension's name, from the state or, when
\* the state has no name (an import), from the id.
getExtNames(dd) ==
    LET parsed == Split(dd.id) IN
    IF dd.new[extNameAttr] = << >>
    THEN IF Len(parsed) # 2
         THEN [database |-> << >>, extName |-> << >>, err |-> TRUE]
         ELSE [database |-> parsed[1], extName |-> parsed[2], err |-> FALSE]
    ELSE [database |-> dd.new[extDatabaseAttr], extName |-> dd.new[extNameAttr], err |-> FALSE]

ExtState(dd) ==
    IF dd.id = << >> THEN [id |-> << >>, old |-> ExtZeroState, new |-> ExtZeroState]
    ELSE [id |-> dd.id, old |-> dd.new, new |-> dd.new]

\* What the extension's handlers leave alone: everything about roles.
ExtFrame == UNCHANGED << nsp, dacl, helper, procs, kind, features, catalog, view >>

\* The start of every extension handler: the invocation's bookkeeping.
ExtInvoke(o, c) ==
    /\ kind = "extension"
    /\ pc = "idle"
    /\ ops < MaxOps
    /\ ops' = ops + 1
    /\ last' = last
    /\ synced' = synced
    /\ op' = o
    /\ cfg' = c
    /\ log' = << >>
    /\ pre' = pre
    /\ ret' = "none"
    /\ todo' = << >>
    /\ extview' = extcat

\* The extension as pg_extension of database db shows it under name n.
ExtRow(x, db, n) == IF db \in Databases /\ n \in ExtNames THEN x ELSE NoExt

resourcePostgreSQLExtensionReadImpl(dd, x, fault) ==
    LET names == getExtNames(dd) IN
    IF names.err THEN [d |-> dd, err |-> "id"]
    ELSE IF fault THEN [d |-> dd, err |-> "read"]
    ELSE LET row == ExtRow(x, names.database, names.extName) IN
         IF ~row.exists THEN [d |-> [dd EXCEPT !.id = << >>], err |-> "none"]
         ELSE LET n == [name |-> names.extName, database |-> names.database,
                        schema |-> row.schema, version |-> row.version]
              IN  [d |-> [id |-> generateExtID([new |-> n]), old |-> dd.old, new |-> n],
                   err |-> "none"]

\* What the read at the end of Update sees: the connection pool's view, which
\* is the committed catalog, not the handler's transaction.
PoolView(committed, inTxn) == committed

\* The read at the end of Create and Update, and the whole of Read.
ExtReadImpl ==
    /\ pc = "extReadImpl"
    /\ \E fault \in BOOLEAN :
         LET r == resourcePostgreSQLExtensionReadImpl(d, PoolView(extcat, extview), fault)
         IN  d' = r.d /\ fail' = r.err
    /\ pc' = "return"
    /\ ExtFrame
    /\ UNCHANGED << txn, lock, op, todo, log, pre, ret, cfg, extcat, extview, ops, last, synced >>

\* The ids an extension may be imported by: database-extension, and ids with
\* fewer or more segments.
ImportIds ==
    { << "d", "-", "e" >>, << "d" >>, << "d", "-", "e", "-", "x" >>,
      << "d", "-", "u", "-", "o" >> }

\* terraform import: the id the user gives is all the resource data holds;
\* Exists and Read are what Terraform calls next.
ImportStatePassthrough ==
    /\ kind = "extension"
    /\ pc = "idle"
    /\ d.id = << >>
    /\ ops < MaxOps
    /\ \E id \in ImportIds : d' = [id |-> id, old |-> ExtZeroState, new |-> ExtZeroState]
    /\ ExtFrame
    /\ UNCHANGED << txn, lock, pc, op, todo, log, pre, ret, fail, cfg, extcat, extview, ops, last, synced >>

resourcePostgreSQLExtensionCreate ==
    /\ kind = "extension"
    /\ d.id = << >>
    /\ CanLock
    /\ \E c \in resourcePostgreSQLExtension :
         /\ ExtInvoke("ExtCreate", c)
         /\ d' = [id |-> << >>, old |-> ExtZeroState, new |-> c]
    /\ lock' = Lock
    /\ pc' = "extCreate"
    /\ fail' = "none"
    /\ ExtFrame
    /\ UNCHANGED << txn, extcat >>

\* db.Exec of CREATE EXTENSION, outside any transaction.
ExtCreateExec ==
    /\ pc = "extCreate"
    /\ LET sql == ExtStmt("CREATE EXTENSION", d.new[extNameAttr],
                          [schema |-> d.new[extSchemaAttr], version |-> d.new[extVersionAttr]])
       IN  \E conn \in BOOLEAN :
             IF ~conn THEN /\ pc' = "return" /\ fail' = "connect"
                           /\ UNCHANGED << log, extcat, d >>
             ELSE /\ log' = Append(log, sql)
                  /\ \E ok \in ExtOutcomes(extcat, sql) :
                       IF ok
                       THEN /\ extcat' = ExtApply(extcat, sql)
                            /\ d' = [d EXCEPT !.id = generateExtID(d)]
                            /\ pc' = "extReadImpl"
                            /\ fail' = fail
                       ELSE /\ pc' = "return" /\ fail' = "stmt"
                            /\ UNCHANGED << extcat, d >>
    /\ extview' = extcat'
    /\ ExtFrame
    /\ UNCHANGED << txn, lock, op, todo, pre, ret, cfg, ops, last, synced >>

resourcePostgreSQLExtensionRead ==
    /\ kind = "extension"
    /\ d.id # << >>
    /\ CanRLock
    /\ ExtInvoke("ExtRead", d.old)
    /\ lock' = RLock
    /\ pc' = "extReadImpl"
    /\ fail' = "none"
    /\ ExtFrame
    /\ UNCHANGED << txn, d, extcat >>

resourcePostgreSQLExtensionExists ==
    /\ kind = "extension"
    /\ d.id # << >>
    /\ CanLock
    /\ ExtInvoke("ExtExists", d.old)
    /\ lock' = Lock
    /\ pc' = "extExists"
    /\ fail' = "none"
    /\ ExtFrame
    /\ UNCHANGED << txn, d, extcat >>

ExtExistsQuery ==
    /\ pc = "extExists"
    /\ LET names == getExtNames(d) IN
       IF names.err THEN fail' = "id" /\ ret' = "err"
       \* dbExists on the provider's own connection
       ELSE \E dbq \in BOOLEAN :
              IF ~dbq THEN fail' = "read" /\ ret' = "err"
              ELSE IF names.database \notin Databases
              THEN fail' = "none" /\ ret' = "false"
              ELSE \E ok \in BOOLEAN :
                     IF ok
                     THEN /\ fail' = "none"
                          /\ ret' = IF ExtRow(extcat, names.database, names.extName).exists
                                    THEN "true" ELSE "false"
                     ELSE fail' = "read" /\ ret' = "err"
    /\ pc' = "return"
    /\ ExtFrame
    /\ UNCHANGED << txn, lock, d, op, todo, log, pre, cfg, extcat, extview, ops, last, synced >>

resourcePostgreSQLExtensionDelete ==
    /\ kind = "extension"
    /\ d.id # << >>
    /\ CanLock
    /\ ExtInvoke("ExtDelete", d.old)
    /\ lock' = Lock
    /\ pc' = "extDelete"
    /\ fail' = "none"
    /\ ExtFrame
    /\ UNCHANGED << txn, d, extcat >>

\* db.Exec of DROP EXTENSION, outside any transaction.
ExtDeleteExec ==
    /\ pc = "extDelete"
    /\ LET names == getExtNames(d)
           sql == ExtStmt("DROP EXTENSION", names.extName, "")
       IN  IF names.err THEN pc' = "return" /\ fail' = "id" /\ UNCHANGED << log, extcat >>
           ELSE \E conn \in BOOLEAN :
             IF ~conn THEN pc' = "return" /\ fail' = "connect" /\ UNCHANGED << log, extcat >>
             ELSE /\ log' = Append(log, sql)
                  /\ pc' = "return"
                  /\ \E ok \in ExtOutcomes(ExtRow(extcat, names.database, names.extName), sql) :
                       IF ok THEN extcat' = ExtApply(extcat, sql) /\ fail' = fail
                       ELSE extcat' = extcat /\ fail' = "stmt"
    /\ extview' = extcat'
    /\ ExtFrame
    /\ UNCHANGED << txn, lock, d, op, todo, pre, ret, cfg, ops, last, synced >>

\* resourcePostgreSQLExtensionUpdate, up to startTransaction.  name and
\* database are ForceNew: a change of either never reaches Update.
resourcePostgreSQLExtensionUpdate ==
    /\ kind = "extension"
    /\ d.id # << >>
    /\ CanLock
    /\ \E c \in resourcePostgreSQLExtension :
         /\ c.name = d.old[extNameAttr]
         /\ c.database = d.old[extDatabaseAttr]
         /\ ExtInvoke("ExtUpdate", c)
         /\ d' = [d EXCEPT !.new = Planned(d.old, c, {extVersionAttr})]
    /\ lock' = Lock
    /\ BeginTxn("setExtSchema")
    /\ ExtFrame
    /\ UNCHANGED << extcat >>

\* A statement sent inside the extension's transaction.
ExtExecStep(s, next) ==
    /\ log' = Append(log, s)
    /\ \E ok \in ExtOutcomes(extview, s) :
         IF ok
         THEN /\ extview' = ExtApply(extview, s)
              /\ pc' = next
              /\ fail' = fail
         ELSE /\ extview' = extview
              /\ pc' = "return"
              /\ fail' = "stmt"

setExtSchema ==
    /\ pc = "setExtSchema"
    /\ LET extName == d.new[extNameAttr]
           schema == d.new[extSchemaAttr]
       IN  IF ~HasChange(extSchemaAttr)
           THEN pc' = "setExtVersion" /\ UNCHANGED << extview, log, fail >>
           ELSE IF schema = ""
           THEN pc' = "return" /\ fail' = "validation" /\ UNCHANGED << extview, log >>
           ELSE ExtExecStep(ExtStmt("SET SCHEMA", extName, schema), "setExtVersion")
    /\ ExtFrame
    /\ UNCHANGED << txn, lock, d, op, todo, pre, ret, cfg, extcat, ops, last, synced >>

setExtVersion ==
    /\ pc = "setExtVersion"
    /\ LET name == d.new[extNameAttr]
           version == d.new[extVersionAttr]
       IN  IF ~HasChange(extVersionAttr)
           THEN pc' = "extReadImpl" /\ UNCHANGED << extview, log, fail >>
           ELSE ExtExecStep(ExtStmt("UPDATE", name, version), "extReadImpl")
    /\ ExtFrame
    /\ UNCHANGED << txn, lock, d, op, todo, pre, ret, cfg, extcat, ops, last, synced >>

\* The deferred calls of an extension handler run and it returns.
ExtReturn ==
    /\ pc = "return"
    /\ kind = "extension"
    /\ extcat' = IF txn THEN TxRollback(extcat, extview) ELSE extcat
    /\ extview' = extcat'
    /\ txn' = FALSE
    /\ lock' = IF op = "ExtRead" THEN RUnlock ELSE Unlock
    /\ ret' = IF op = "ExtExists" THEN ret ELSE IF fail = "none" THEN "ok" ELSE "err"
    /\ d' = CASE op = "ExtExists" ->
                   (IF ret = "false" THEN ExtState([d EXCEPT !.id = << >>]) ELSE d)
              [] op = "ExtDelete" ->
                   (IF fail = "none" THEN ExtState([d EXCEPT !.id = << >>]) ELSE ExtState(d))
              [] OTHER -> ExtState(d)
    /\ pc' = "done"
    /\ ExtFrame
    /\ UNCHANGED << op, todo, log, pre, fail, cfg, ops, last, synced >>

-----------------------------------------------------------------------------

\* The caller has looked at the result; the next invocation starts afresh.
\* The saved state is what a Read of the catalog would save.
InSync ==
    IF kind = "role"
    THEN LET r == resourcePostgreSQLRoleReadImpl(d, catalog, features, "none")
         IN  r.err = "none" /\ r.d = d
    ELSE LET r == resourcePostgreSQLExtensionReadImpl(d, extcat, FALSE)
         IN  r.err = "none" /\ r.d = d

Idle ==
    /\ pc = "done"
    /\ pc' = "idle"
    /\ op' = "none"
    /\ log' = << >>
    /\ todo' = << >>
    /\ pre' = catalog
    /\ ret' = "none"
    /\ fail' = "none"
    /\ cfg' = IF kind = "role" THEN ZeroState ELSE ExtZeroState
    /\ last' = [op |-> op, ret |-> ret, cfg |-> cfg, synced |-> synced]
    /\ synced' = InSync
    /\ UNCHANGED << nsp, dacl, helper, procs, kind, features, catalog, txn, view, lock, d, extcat, extview, ops >>

-----------------------------------------------------------------------------
(* The schema resource and its policies.  A policy binds one grantee to     *)
(* {create, create_with_grant, usage, usage_with_grant}; the server keeps,  *)
(* per grantee and privilege, no privilege (0), the privilege (1) or the    *)
(* privilege with its grant option (2).  The resource's code is not among  *)
(* the sources, its acceptance test is: the handler follows the             *)
(* specification's diff of policies.                                        *)

Grantees == {"g1", "g2"}

\* No privilege on the schema.
NoAcl == [p \in {"CREATE", "USAGE"} |-> 0]

\* The policies a configuration declares for one grantee: per privilege,
\* nothing, the plain form or the grant-option form.
Policies(g) ==
    { [role |-> g, create |-> c = 1, create_with_grant |-> c = 2,
       usage |-> u = 1, usage_with_grant |-> u = 2] :
        c \in 0..2, u \in 0..2 } \
    { [role |-> g, create |-> FALSE, create_with_grant |-> FALSE,
       usage |-> FALSE, usage_with_grant |-> FALSE] }

\* The policy sets a configuration declares: at most one policy per grantee.
PolicySets ==
    { S \in SUBSET (UNION { Policies(g) : g \in Grantees }) :
        \A x, y \in S : x.role = y.role => x = y }

\* What a policy asks of the server for privilege p: *_with_grant implies
\* the privilege itself.
policyLevel(pol, p) ==
    IF p = "CREATE"
    THEN (IF pol.create_with_grant THEN 2 ELSE IF pol.create THEN 1 ELSE 0)
    ELSE (IF pol.usage_with_grant THEN 2 ELSE IF pol.usage THEN 1 ELSE 0)

\* The privileges a policy set asks for, per grantee.
policiesToAcl(S) ==
    [g \in Grantees |->
        [p \in {"CREATE", "USAGE"} |->
            IF \E x \in S : x.role = g
            THEN policyLevel(CHOOSE x \in S : x.role = g, p)
            ELSE 0]]

\* The policies read back from the schema's access control list.
readSchemaPolicies(acl) ==
    { [role |-> g,
       create |-> acl[g]["CREATE"] = 1, create_with_grant |-> acl[g]["CREATE"] = 2,
       usage |-> acl[g]["USAGE"] = 1, usage_with_grant |-> acl[g]["USAGE"] = 2] :
        g \in { h \in Grantees : acl[h] # NoAcl } }

SchemaStmt(k, p, g) == [kind |-> k, priv |-> p, role |-> g]

\* What the server does with one statement on the schema: a GRANT without
\* the option leaves a grant option in place, and a REVOKE of the privilege
\* takes its grant option too.
SchemaApply(acl, s) ==
    LET now == acl[s.role][s.priv]
        new == CASE s.kind = "GRANT"                   -> IF now = 0 THEN 1 ELSE now
                 [] s.kind = "GRANT WITH GRANT OPTION" -> 2
                 [] s.kind = "REVOKE GRANT OPTION FOR" -> IF now = 2 THEN 1 ELSE now
                 [] s.kind = "REVOKE"                  -> 0
    IN  [acl EXCEPT ![s.role][s.priv] = new]

\* The grants of what the grantee is to hold sent before the revokes of what
\* it held.
granteeStmtsGrantFirst(g, old, new) ==
    LET revoke(p) ==
            IF old[p] = new[p] \/ old[p] = 0 THEN << >>
            ELSE IF old[p] = 2 /\ new[p] = 1
                 THEN << SchemaStmt("REVOKE GRANT OPTION FOR", p, g) >>
                 ELSE << SchemaStmt("REVOKE", p, g) >>
        grant(p) ==
            IF old[p] = new[p] \/ new[p] = 0 THEN << >>
            ELSE IF new[p] = 2
                 THEN << SchemaStmt("GRANT WITH GRANT OPTION", p, g) >>
                 ELSE << SchemaStmt("GRANT", p, g) >>
    IN  grant("CREATE") \o grant("USAGE") \o revoke("CREATE") \o revoke("USAGE")

\* The statements that take the grantee g from the levels `old` to the
\* levels `new`: the revokes of what it held, then the grants of what it is
\* to hold; a privilege whose level stays is left alone.
granteeStmts(g, old, new) ==
    LET revoke(p) ==
            IF old[p] = new[p] \/ old[p] = 0 THEN << >>
            ELSE IF old[p] = 2 /\ new[p] = 1
                 THEN << SchemaStmt("REVOKE GRANT OPTION FOR", p, g) >>
                 ELSE << SchemaStmt("REVOKE", p, g) >>
        grant(p) ==
            IF old[p] = new[p] \/ new[p] = 0 THEN << >>
            ELSE IF new[p] = 2
                 THEN << SchemaStmt("GRANT WITH GRANT OPTION", p, g) >>
                 ELSE << SchemaStmt("GRANT", p, g) >>
    IN  revoke("CREATE") \o revoke("USAGE") \o grant("CREATE") \o grant("USAGE")

\* The statements of one update of the policies, grantee by grantee.
setSchemaPolicy(current, desired) ==
    LET old == policiesToAcl(current)
        new == policiesToAcl(desired)
    IN  granteeStmts("g1", old["g1"], new["g1"]) \o granteeStmts("g2", old["g2"], new["g2"])

\* No update of the schema has run.
NoSchemaCall ==
    [pc |-> "idle", acl |-> [g \in Grantees |-> NoAcl], before |-> [g \in Grantees |-> NoAcl],
     policy |-> {}, todo |-> << >>, log |-> << >>, err |-> FALSE, observed |-> {}]

-----------------------------------------------------------------------------
(* The default-privileges resource.  A rule is (owner, grantee, object      *)
(* type, privileges); the server keeps the rules in pg_default_acl and      *)
(* gives every new object what the rule of its owner and type holds.  One   *)
(* grantee is modelled.  The resource's code is not among the sources, its  *)
(* acceptance test is: the handler follows the specification's rule.        *)

\* The most objects the owners create, and the most rules applied.
MaxObjects == 2
MaxRules == 2

Owners == {"o1", "o2"}

\* The (owner, object type) pairs a rule is for.
RuleKeys == Owners \X {"table", "sequence"}

\* The privilege sets a rule may declare for an object type, out of
\* allowedPrivileges.
RulePrivileges(t) ==
    IF t = "table" THEN { {"SELECT"}, {"SELECT", "INSERT"} }
    ELSE { {"USAGE"}, {"USAGE", "SELECT"} }

\* No rule: what pg_default_acl holds for the grantee before any rule.
NoRule == [set |-> FALSE, privs |-> {}]

\* No rule at all, no object, no handler running.
NoDefaults ==
    [pc |-> "idle", defacl |-> [k \in RuleKeys |-> {}], objects |-> << >>,
     view |-> [defacl |-> [k \in RuleKeys |-> {}], objects |-> << >>],
     rule |-> [key |-> << "o1", "table" >>, privs |-> {}],
     applied |-> [k \in RuleKeys |-> NoRule],
     todo |-> << >>, err |-> FALSE, calls |-> 0]

\* The statements resourcePostgreSQLDefaultPrivilegesCreate sends for a rule:
\* ALTER DEFAULT PRIVILEGES FOR ROLE owner ... REVOKE ALL ON <type>S FROM
\* grantee, then ... GRANT privileges ON <type>S TO grantee.
defaultPrivilegesStmtsAlsoExisting(rule) ==
    << [kind |-> "REVOKE ALL", key |-> rule.key, privs |-> {}],
       [kind |-> "GRANT", key |-> rule.key, privs |-> rule.privs],
       [kind |-> "GRANT ON ALL", key |-> rule.key, privs |-> rule.privs] >>

defaultPrivilegesStmts(rule) ==
    << [kind |-> "REVOKE ALL", key |-> rule.key, privs |-> {}],
       [kind |-> "GRANT", key |-> rule.key, privs |-> rule.privs] >>

\* What the server does with one statement: ALTER DEFAULT PRIVILEGES changes
\* pg_default_acl only; a GRANT ... ON ALL <type>S IN SCHEMA changes the
\* objects that exist.
DefaultsApply(db, s) ==
    CASE s.kind = "REVOKE ALL" -> [db EXCEPT !.defacl[s.key] = {}]
      [] s.kind = "GRANT"      -> [db EXCEPT !.defacl[s.key] = @ \cup s.privs]
      [] s.kind = "GRANT ON ALL" ->
           [db EXCEPT !.objects =
               [i \in 1..Len(db.objects) |->
                   IF << db.objects[i].owner, db.objects[i].type >> = s.key
                   THEN [db.objects[i] EXCEPT !.privs = @ \cup s.privs]
                   ELSE db.objects[i]]]

Init ==
    /\ \/ kind = "role" /\ features \in FeatureSets
          /\ d = [id |-> "", old |-> ZeroState, new |-> ZeroState]
          /\ cfg = ZeroState
       \/ kind = "extension" /\ features = {}
          /\ d = [id |-> << >>, old |-> ExtZeroState, new |-> ExtZeroState]
          /\ cfg = ExtZeroState
    /\ catalog = [r \in RoleNames |-> NoRole]
    /\ txn = FALSE
    /\ view = [r \in RoleNames |-> NoRole]
    /\ lock = Unlocked
    /\ pc = "idle"
    /\ op = "none"
    /\ todo = << >>
    /\ log = << >>
    /\ pre = [r \in RoleNames |-> NoRole]
    /\ ret = "none"
    /\ fail = "none"
    /\ extcat = NoExt
    /\ extview = NoExt
    /\ ops = 0
    /\ last = [op |-> "none", ret |-> "none", cfg |-> cfg, synced |-> TRUE]
    /\ synced = TRUE
    /\ procs = [p \in Procs |-> NoCall]
    /\ helper = NoHelper
    /\ nsp = NoSchemaCall
    /\ dacl = NoDefaults

Next ==
    \/ resourcePostgreSQLRoleCreate
    \/ RoleCreateExec
    \/ grantRoles
    \/ grantLoop
    \/ Commit
    \/ ReadImpl
    \/ resourcePostgreSQLRoleRead
    \/ resourcePostgreSQLRoleExists
    \/ RoleExistsQuery
    \/ resourcePostgreSQLRoleUpdate
    \/ setRoleName
    \/ setRoleBypassRLS
    \/ setRoleConnLimit
    \/ setRoleCreateDB
    \/ setRoleCreateRole
    \/ setRoleInherit
    \/ setRoleLogin
    \/ setRoleReplication
    \/ setRoleSuperuser
    \/ setRoleValidUntil
    \/ revokeRoles
    \/ revokeLoop
    \/ resourcePostgreSQLRoleDelete
    \/ RoleDeleteQueries
    \/ RoleDeleteExec
    \/ Return
    \/ ImportStatePassthrough
    \/ resourcePostgreSQLExtensionCreate
    \/ ExtCreateExec
    \/ ExtReadImpl
    \/ resourcePostgreSQLExtensionRead
    \/ resourcePostgreSQLExtensionExists
    \/ ExtExistsQuery
    \/ resourcePostgreSQLExtensionDelete
    \/ ExtDeleteExec
    \/ resourcePostgreSQLExtensionUpdate
    \/ setExtSchema
    \/ setExtVersion
    \/ ExtReturn
    \/ Idle

Spec == Init /\ [][Next]_vars

-----------------------------------------------------------------------------
(* Handlers run side by side. Here the state is the lock and, for each     *)
(* goroutine, the handler it is in and how far it has come; the catalog    *)
(* and the resource data stay as Init leaves them.                         *)

Sequential == << kind, features, catalog, txn, view, d, pc, op, todo, log, pre, ret,
                 fail, cfg, extcat, extview, ops, last, synced >>

\* The writers that wait for the lock.
WaitingWriters ==
    { q \in Procs : /\ procs[q].op # "none"
                    /\ procs[q].holds = "none"
                    /\ LockMode(procs[q].op) = "exclusive" }

\* Terraform calls handler o in goroutine p, which calls Lock() or RLock().
Call(p, o) ==
    /\ procs[p].op = "none"
    /\ procs' = [procs EXCEPT ![p] =
                    [NoCall EXCEPT !.op = o,
                                   !.behind = IF LockMode(o) = "shared"
                                              THEN WaitingWriters ELSE {}]]
    /\ UNCHANGED << nsp, dacl, helper, lock, Sequential >>

\* c.catalogLock.Lock() or RLock() returns: the goroutine goes on once the
\* lock lets it in, a reader once the writers that waited when it arrived
\* have had the lock.
Acquire(p) ==
    /\ procs[p].op # "none"
    /\ procs[p].holds = "none"
    /\ IF LockMode(procs[p].op) = "exclusive"
       THEN CanLock /\ lock' = Lock
       ELSE CanRLock /\ procs[p].behind = {} /\ lock' = RLock
    /\ procs' = [q \in Procs |->
                    IF q = p THEN [procs[p] EXCEPT !.holds = LockMode(procs[p].op)]
                    ELSE [procs[q] EXCEPT !.behind = @ \ {p}]]
    /\ UNCHANGED << nsp, dacl, helper, Sequential >>

\* The next step of the handler's body, which succeeds or fails. A step
\* that called Lock() or RLock() would wait for the lock as any caller does:
\* sync.RWMutex does not know which goroutine holds it.
Step(p) ==
    /\ procs[p].holds # "none"
    /\ ~procs[p].err
    /\ procs[p].at < Len(Body(procs[p].op))
    /\ Body(procs[p].op)[procs[p].at + 1] = "rlock" => CanRLock
    /\ Body(procs[p].op)[procs[p].at + 1] = "lock" => CanLock
    /\ \E ok \in BOOLEAN :
         procs' = [procs EXCEPT ![p].at = @ + 1, ![p].err = ~ok]
    /\ UNCHANGED << nsp, dacl, helper, lock, Sequential >>

\* The handler returns, at the end of its body or on the first error, and
\* its deferred Unlock() or RUnlock() runs.
Exit(p) ==
    /\ procs[p].holds # "none"
    /\ procs[p].err \/ procs[p].at = Len(Body(procs[p].op))
    /\ lock' = IF procs[p].holds = "exclusive" THEN Unlock ELSE RUnlock
    /\ procs' = [procs EXCEPT ![p] = NoCall]
    /\ UNCHANGED << nsp, dacl, helper, Sequential >>

NextLock ==
    \/ \E p \in Procs, o \in Handlers : Call(p, o)
    \/ \E p \in Procs : Acquire(p)
    \/ \E p \in Procs : Step(p)
    \/ \E p \in Procs : Exit(p)

SpecLock == Init /\ [][NextLock]_vars

\* The same goroutines under the scheduling the Go runtime gives them: a
\* goroutine that can take its next step or return does so, every database
\* call returning, and a goroutine that the lock lets in again and again
\* gets it (sync.Mutex hands the lock to a waiter that starves).
SpecLockFair ==
    /\ Init /\ [][NextLock]_vars
    /\ \A p \in Procs : WF_vars(Step(p)) /\ WF_vars(Exit(p)) /\ SF_vars(Acquire(p))

-----------------------------------------------------------------------------
(* The helpers called on their own: each call draws its arguments and      *)
(* notes what the function returned.                                       *)

\* The object types and privileges a default-privileges or grant block may
\* name: the known ones, and some the allow-list does not hold.
ObjectTypes == {"table", "sequence", "view", ""}
Privileges ==
    { allowedPrivileges.table[i] : i \in 1..Len(allowedPrivileges.table) }
    \cup { allowedPrivileges.sequence[i] : i \in 1..Len(allowedPrivileges.sequence) }
    \cup {"EXECUTE"}

\* The characters of a literal: a plain one, the single quote, the backslash.
LiteralChars == {"a", "'", "\\"}

\* The characters of a database or extension name: a plain one and the '-'.
NameChars == {"a", "-"}

\* The connection limits a configuration may declare.
ConnLimits == {-3, -2, -1, 0, 1, 5}

HelperFrame == UNCHANGED << nsp, dacl, lock, procs, Sequential >>

CallValidatePrivileges ==
    /\ helper.fn = "none"
    /\ \E t \in ObjectTypes, P \in Strings(Privileges, MaxPrivs) :
         helper' = [fn |-> "validatePrivileges", arg |-> << t, P >>,
                    out |-> validatePrivileges(t, P)]
    /\ HelperFrame

CallPqQuoteLiteral ==
    /\ helper.fn = "none"
    /\ \E in \in Strings(LiteralChars, MaxLen) :
         helper' = [fn |-> "pqQuoteLiteral", arg |-> in, out |-> pqQuoteLiteral(in)]
    /\ HelperFrame

CallValidateConnLimit ==
    /\ helper.fn = "none"
    /\ \E v \in ConnLimits :
         helper' = [fn |-> "validateConnLimit", arg |-> v, out |-> validateConnLimit(v)]
    /\ HelperFrame

\* An import: the id generateExtID makes of a database and an extension name
\* is all the resource data holds when getExtNames is called.
CallGetExtNames ==
    /\ helper.fn = "none"
    /\ \E db \in Strings(NameChars, MaxLen), n \in Strings(NameChars, MaxLen) \ {<< >>} :
         LET made == [id |-> << >>, old |-> ExtZeroState,
                      new |-> [ExtZeroState EXCEPT ![extDatabaseAttr] = db,
                                                   ![extNameAttr] = n]]
             imported == [id |-> generateExtID(made), old |-> ExtZeroState,
                          new |-> ExtZeroState]
         IN  helper' = [fn |-> "getExtNames", arg |-> << db, n >>,
                        out |-> getExtNames(imported)]
    /\ HelperFrame

\* The helper has returned to its caller.
HelperReturn ==
    /\ helper.fn # "none"
    /\ helper' = NoHelper
    /\ HelperFrame

NextHelpers ==
    \/ CallValidatePrivileges
    \/ CallPqQuoteLiteral
    \/ CallValidateConnLimit
    \/ CallGetExtNames
    \/ HelperReturn

SpecHelpers == Init /\ [][NextHelpers]_vars

-----------------------------------------------------------------------------
(* The schema resource's update of its policies, on its own. *)

SchemaFrame == UNCHANGED << dacl, helper, lock, procs, Sequential >>

\* The update reads the policies the schema has, and plans the statements
\* that take them to the declared ones.
resourcePostgreSQLSchemaUpdate ==
    /\ nsp.pc = "idle"
    /\ \E desired \in PolicySets :
         nsp' = [nsp EXCEPT !.pc = "exec",
                            !.before = nsp.acl,
                            !.policy = desired,
                            !.todo = setSchemaPolicy(readSchemaPolicies(nsp.acl), desired),
                            !.log = << >>,
                            !.err = FALSE]
    /\ SchemaFrame

\* The next statement of the update; a statement that fails ends the update
\* and its transaction is rolled back.
SchemaExec ==
    /\ nsp.pc = "exec"
    /\ nsp.todo # << >>
    /\ \E ok \in BOOLEAN :
         IF ok
         THEN nsp' = [nsp EXCEPT !.acl = SchemaApply(nsp.acl, Head(nsp.todo)),
                                 !.log = Append(nsp.log, Head(nsp.todo)),
                                 !.todo = Tail(nsp.todo)]
         ELSE nsp' = [nsp EXCEPT !.acl = nsp.before, !.pc = "done", !.err = TRUE]
    /\ SchemaFrame

\* The commit of the update.
SchemaCommit ==
    /\ nsp.pc = "exec"
    /\ nsp.todo = << >>
    /\ \E ok \in BOOLEAN :
         IF ok
         THEN nsp' = [nsp EXCEPT !.pc = "read"]
         ELSE nsp' = [nsp EXCEPT !.acl = nsp.before, !.pc = "done", !.err = TRUE]
    /\ SchemaFrame

\* The read-back after the commit.
SchemaRead ==
    /\ nsp.pc = "read"
    /\ nsp' = [nsp EXCEPT !.observed = readSchemaPolicies(nsp.acl), !.pc = "done"]
    /\ SchemaFrame

\* The update has returned: what it planned and sent is forgotten, what
\* the schema holds stays.
SchemaReturn ==
    /\ nsp.pc = "done"
    /\ nsp' = [NoSchemaCall EXCEPT !.acl = nsp.acl]
    /\ SchemaFrame

NextSchema ==
    \/ resourcePostgreSQLSchemaUpdate
    \/ SchemaExec
    \/ SchemaCommit
    \/ SchemaRead
    \/ SchemaReturn

SpecSchema == Init /\ [][NextSchema]_vars

-----------------------------------------------------------------------------
(* The default-privileges resource and the owners' new objects, on their    *)
(* own.                                                                     *)

DefaultsFrame == UNCHANGED << nsp, helper, lock, procs, Sequential >>

\* Create, and Update with it: the rule's statements in one transaction.
resourcePostgreSQLDefaultPrivilegesCreate ==
    /\ dacl.pc = "idle"
    /\ dacl.calls < MaxRules
    /\ \E k \in RuleKeys :
         \E P \in RulePrivileges(k[2]) :
            LET rule == [key |-> k, privs |-> P]
            IN  dacl' = [dacl EXCEPT !.pc = "exec",
                                     !.rule = rule,
                                     !.view = [defacl |-> dacl.defacl, objects |-> dacl.objects],
                                     !.todo = defaultPrivilegesStmts(rule),
                                     !.err = FALSE,
                                     !.calls = dacl.calls + 1]
    /\ DefaultsFrame

DefaultsExec ==
    /\ dacl.pc = "exec"
    /\ dacl.todo # << >>
    /\ \E ok \in BOOLEAN :
         IF ok
         THEN dacl' = [dacl EXCEPT !.view = DefaultsApply(dacl.view, Head(dacl.todo)),
                                   !.todo = Tail(dacl.todo)]
         ELSE dacl' = [dacl EXCEPT !.pc = "done", !.err = TRUE]
    /\ DefaultsFrame

\* The commit: what the transaction did to pg_default_acl and to the objects
\* it saw becomes visible; objects created meanwhile are as they were made.
DefaultsCommit ==
    /\ dacl.pc = "exec"
    /\ dacl.todo = << >>
    /\ \E ok \in BOOLEAN :
         IF ok
         THEN dacl' = [dacl EXCEPT
                 !.defacl = dacl.view.defacl,
                 !.objects = [i \in 1..Len(dacl.objects) |->
                                 IF i <= Len(dacl.view.objects)
                                 THEN dacl.view.objects[i] ELSE dacl.objects[i]],
                 !.applied[dacl.rule.key] = [set |-> TRUE, privs |-> dacl.rule.privs],
                 !.pc = "done"]
         ELSE dacl' = [dacl EXCEPT !.pc = "done", !.err = TRUE]
    /\ DefaultsFrame

DefaultsReturn ==
    /\ dacl.pc = "done"
    /\ dacl' = [dacl EXCEPT !.pc = "idle"]
    /\ DefaultsFrame

\* An owner creates a table or a sequence: the server gives it the
\* privileges pg_default_acl holds for its owner and type.
CreateObject ==
    /\ Len(dacl.objects) < MaxObjects
    /\ \E k \in RuleKeys :
         dacl' = [dacl EXCEPT !.objects =
                     Append(dacl.objects, [owner |-> k[1], type |-> k[2],
                                           privs |-> dacl.defacl[k],
                                           after |-> dacl.applied[k]])]
    /\ DefaultsFrame

NextDefaults ==
    \/ resourcePostgreSQLDefaultPrivilegesCreate
    \/ DefaultsExec
    \/ DefaultsCommit
    \/ DefaultsReturn
    \/ CreateObject

SpecDefaults == Init /\ [][NextDefaults]_vars


-----------------------------------------------------------------------------
(* Properties of the role and extension handlers *)

\* The positions in the log of the statements of kind k.
Sent(k) == { i \in 1..Len(log) : log[i].kind = k }

\* The second identifiers of the statements of kind k: for REVOKE and GRANT,
\* the roles revoked and granted.
Args(k) == { log[i].arg : i \in Sent(k) }

\* Role handler o has returned.
Returned(o) == kind = "role" /\ pc = "done" /\ op = o

\* Role handler o is running: invoked and not yet returned.
Running(o) == kind = "role" /\ op = o /\ pc \notin {"idle", "done"}

\* The name the role had when the handler started: the name the rename, if one
\* was sent, renamed from.
NameBefore ==
    IF Len(log) > 0 /\ log[1].kind = "RENAME" THEN log[1].role ELSE cfg[roleNameAttr]

\* The memberships the role had in the catalog when the handler started.
MembersBefore ==
    IF NameBefore \in RoleNames /\ pre[NameBefore].exists
    THEN pre[NameBefore].member ELSE {}

\* The handler started on a role of the catalog: the name its saved state
\* held was the name of a role.
RoleBefore == NameBefore \in RoleNames /\ pre[NameBefore].exists

\* C1 (transactional atomicity): when a role Create, Update or Delete has
\* returned after one of its statements, or its commit, failed, the catalog
\* equals the catalog the handler started from.
C1_Atomicity ==
    (/\ kind = "role"
     /\ pc = "done"
     /\ op \in {"RoleCreate", "RoleUpdate", "RoleDelete"}
     /\ fail \in {"stmt", "commit"})
    => catalog = pre

\* C1's case: an Update whose rename succeeded inside the transaction and
\* whose third or later statement failed has returned.
C1_Witness ==
    /\ Returned("RoleUpdate")
    /\ fail = "stmt"
    /\ Len(log) >= 3
    /\ log[1].kind = "RENAME"

\* C2 (membership convergence): after an Update of a role of the catalog has
\* returned success, the role is in the catalog under its desired name and the
\* roles granted to it there are exactly the desired ones.
C2_MembershipConvergence ==
    (Returned("RoleUpdate") /\ ret = "ok" /\ RoleBefore)
    => /\ cfg[roleNameAttr] \in RoleNames
       /\ catalog[cfg[roleNameAttr]].exists
       /\ catalog[cfg[roleNameAttr]].member = cfg[roleRolesAttr]

\* C2's case: a successful Update of a role that held a membership it no
\* longer wants and wants one it did not hold.
C2_Witness ==
    /\ Returned("RoleUpdate")
    /\ ret = "ok"
    /\ MembersBefore \ cfg[roleRolesAttr] # {}
    /\ cfg[roleRolesAttr] \ MembersBefore # {}

\* C3 as stated (minimal membership diff): a successful role Update has sent a
\* REVOKE exactly for the roles held and no longer desired and a GRANT exactly
\* for the roles desired and not yet held.
C3_MinimalDiff ==
    (Returned("RoleUpdate") /\ ret = "ok")
    => /\ Args("REVOKE") = MembersBefore \ cfg[roleRolesAttr]
       /\ Args("GRANT") = cfg[roleRolesAttr] \ MembersBefore

\* C3 amended (revoke all, grant all): a successful role Update has sent one
\* REVOKE for every role the role held, desired or not, and one GRANT for
\* every desired role, held or not.
C3_RevokeAllGrantAll ==
    (Returned("RoleUpdate") /\ ret = "ok")
    => /\ Args("REVOKE") = MembersBefore
       /\ Cardinality(Sent("REVOKE")) = Cardinality(MembersBefore)
       /\ Args("GRANT") = cfg[roleRolesAttr]
       /\ Cardinality(Sent("GRANT")) = Cardinality(cfg[roleRolesAttr])

\* C3's case: a successful Update of a role that held a role it still wants,
\* another it no longer wants, with the kept one revoked and granted again.
C3_Witness ==
    /\ Returned("RoleUpdate")
    /\ ret = "ok"
    /\ MembersBefore \cap cfg[roleRolesAttr] # {}
    /\ MembersBefore \cap cfg[roleRolesAttr] \subseteq Args("REVOKE") \cap Args("GRANT")

\* A role Update has returned that was invoked right after a successful role
\* Update with the same configuration, itself invoked on a saved state that
\* agreed with the catalog.
SecondUpdate ==
    /\ Returned("RoleUpdate")
    /\ last.op = "RoleUpdate"
    /\ last.ret = "ok"
    /\ last.cfg = cfg
    /\ last.synced

C5_ExtUpdatePersists ==
    (/\ kind = "extension"
     /\ pc = "done"
     /\ op = "ExtUpdate"
     /\ ret = "ok"
     /\ Sent("SET SCHEMA") \cup Sent("UPDATE") # {})
    => /\ extcat.exists
       /\ cfg[extSchemaAttr] # "" => extcat.schema = cfg[extSchemaAttr]
       /\ cfg[extVersionAttr] # "" => extcat.version = cfg[extVersionAttr]
       /\ d.new[extSchemaAttr] = extcat.schema
       /\ d.new[extVersionAttr] = extcat.version

\* The rename of the running Update was executed by the server.
Renamed == Sent("RENAME") # {} /\ ~(Len(log) = 1 /\ fail = "stmt")

\* C6 (rename-first ordering): a role Update sends a rename only as its first
\* statement; one whose saved name differs from the desired name sends the
\* rename before anything else; and every statement after the rename, the
\* commit aside, targets the new name and not the old one.
C6_RenameFirst ==
    (kind = "role" /\ op = "RoleUpdate")
    => /\ Sent("RENAME") \subseteq {1}
       /\ (/\ pc \notin {"idle", "done"}
           /\ d.old[roleNameAttr] # cfg[roleNameAttr]
           /\ Len(log) > 0)
          => /\ log[1].kind = "RENAME"
             /\ log[1].role = d.old[roleNameAttr]
             /\ log[1].arg = cfg[roleNameAttr]
       /\ Sent("RENAME") # {}
          => \A i \in 2..Len(log) :
               log[i].kind # "COMMIT"
               => log[i].role = log[1].arg /\ log[i].role # log[1].role

\* C6's case: an Update that renamed the role and then altered an attribute and
\* read the memberships has succeeded.
C6_Witness ==
    /\ Returned("RoleUpdate")
    /\ ret = "ok"
    /\ Sent("RENAME") # {}
    /\ Sent("ALTER ROLE") # {}
    /\ Sent("SELECT ROLES") # {}

\* The memberships the role holds inside the running transaction.
Held ==
    LET n == IF Renamed THEN cfg[roleNameAttr] ELSE NameBefore
    IN  IF n \in RoleNames /\ view[n].exists THEN view[n].member ELSE {}

\* C7 (revoke before grant): in a role Update every REVOKE is sent before any
\* GRANT; the role never holds a membership outside what it held or what is
\* desired; and inside the transaction, once a GRANT has been sent, it holds
\* none outside the desired.
C7_RevokeBeforeGrant ==
    (kind = "role" /\ op = "RoleUpdate")
    => /\ \A i \in Sent("GRANT"), j \in Sent("REVOKE") : j < i
       /\ Held \subseteq MembersBefore \cup cfg[roleRolesAttr]
       /\ (txn /\ Sent("GRANT") # {}) => Held \subseteq cfg[roleRolesAttr]

\* C7's case: an Update that had a role to revoke and another to grant is
\* inside its transaction with a GRANT sent.
C7_Witness ==
    /\ Running("RoleUpdate")
    /\ txn
    /\ Sent("REVOKE") # {}
    /\ Sent("GRANT") # {}
    /\ MembersBefore \ cfg[roleRolesAttr] # {}

\* The attribute an option of ALTER ROLE sets.
AttrOf(key) ==
    CASE key \in {"BYPASSRLS", "NOBYPASSRLS"}     -> roleBypassRLSAttr
      [] key = "CONNECTION LIMIT"                 -> roleConnLimitAttr
      [] key \in {"CREATEDB", "NOCREATEDB"}       -> roleCreateDBAttr
      [] key \in {"CREATEROLE", "NOCREATEROLE"}   -> roleCreateRoleAttr
      [] key \in {"INHERIT", "NOINHERIT"}         -> roleInheritAttr
      [] key \in {"LOGIN", "NOLOGIN"}             -> roleLoginAttr
      [] key \in {"REPLICATION", "NOREPLICATION"} -> roleReplicationAttr
      [] key \in {"SUPERUSER", "NOSUPERUSER"}     -> roleSuperuserAttr
      [] key = "VALID UNTIL"                      -> roleValidUntilAttr

\* C8 (alter only on inequality): every rename or ALTER a running role Update
\* has sent is for an attribute whose desired value differs from the saved
\* one, and every schema or version change a running extension Update has
\* sent is for one whose desired value differs from the saved one.
C8_AlterOnlyOnInequality ==
    /\ Running("RoleUpdate")
       => \A i \in 1..Len(log) :
            /\ log[i].kind = "RENAME" => d.old[roleNameAttr] # cfg[roleNameAttr]
            /\ log[i].kind = "ALTER ROLE"
               => /\ Len(log[i].opts) = 1
                  /\ d.old[AttrOf(log[i].opts[1].key)] # cfg[AttrOf(log[i].opts[1].key)]
    /\ (kind = "extension" /\ op = "ExtUpdate" /\ pc \notin {"idle", "done"})
       => \A i \in 1..Len(log) :
            /\ log[i].kind = "SET SCHEMA" => d.old[extSchemaAttr] # cfg[extSchemaAttr]
            /\ log[i].kind = "UPDATE" => d.old[extVersionAttr] # cfg[extVersionAttr]

\* C8's case: an Update has gone through every setter and sent exactly one
\* ALTER, for the one attribute that differed.
C8_Witness ==
    /\ Running("RoleUpdate")
    /\ pc = "revokeRoles"
    /\ Cardinality(Sent("ALTER ROLE")) = 1
    /\ Cardinality({ a \in RoleAttrs : d.old[a] # cfg[a] }) = 1

\* The row of the catalog under the desired name.
Row == catalog[cfg[roleNameAttr]]

\* The password the catalog holds for a desired password p.
WantPasswd(p) == IF strings_ToUpper(p) = "NULL" THEN "" ELSE p

\* C9 (attribute convergence of Update): after an Update of a role of the
\* catalog has returned success, the role is in the catalog under the desired
\* name with every attribute at its desired value: the flags, the connection
\* limit, valid-until, and the password when one is declared.
C9_UpdateConverges ==
    (Returned("RoleUpdate") /\ ret = "ok" /\ RoleBefore)
    => /\ cfg[roleNameAttr] \in RoleNames
       /\ Row.exists
       /\ Row.rolcanlogin = cfg[roleLoginAttr]
       /\ Row.rolsuper = cfg[roleSuperuserAttr]
       /\ Row.rolcreatedb = cfg[roleCreateDBAttr]
       /\ Row.rolcreaterole = cfg[roleCreateRoleAttr]
       /\ Row.rolinherit = cfg[roleInheritAttr]
       /\ Row.rolreplication = cfg[roleReplicationAttr]
       /\ featureSupported(featureRLS) => Row.rolbypassrls = cfg[roleBypassRLSAttr]
       /\ Row.rolconnlimit = cfg[roleConnLimitAttr]
       /\ cfg[roleValidUntilAttr] # ""
          => Row.rolvaliduntil = PgTimestamp(cfg[roleValidUntilAttr])
       /\ cfg[rolePasswordAttr] # ""
          => Row.passwd = WantPasswd(cfg[rolePasswordAttr])

\* C10 (attribute convergence of Create): after a role Create has returned
\* success, the role is in the catalog with each flag and the connection limit
\* at the desired value of that same attribute.
C10_CreateConverges ==
    (Returned("RoleCreate") /\ ret = "ok")
    => /\ cfg[roleNameAttr] \in RoleNames
       /\ Row.exists
       /\ Row.rolsuper = cfg[roleSuperuserAttr]
       /\ Row.rolcreatedb = cfg[roleCreateDBAttr]
       /\ Row.rolcreaterole = cfg[roleCreateRoleAttr]
       /\ Row.rolinherit = cfg[roleInheritAttr]
       /\ Row.rolcanlogin = cfg[roleLoginAttr]
       /\ Row.rolreplication = cfg[roleReplicationAttr]
       /\ Row.rolconnlimit = cfg[roleConnLimitAttr]


\* C11 (membership on Create): in a role Create the CREATE ROLE is sent before
\* any GRANT, and after a successful Create the role is in the catalog under
\* its desired name and the roles granted to it there are exactly the desired
\* ones.
C11_MembershipOnCreate ==
    (kind = "role" /\ op = "RoleCreate")
    => /\ \A i \in Sent("GRANT") : \E j \in Sent("CREATE ROLE") : j < i
       /\ (pc = "done" /\ ret = "ok")
          => /\ cfg[roleNameAttr] \in RoleNames
             /\ catalog[cfg[roleNameAttr]].exists
             /\ catalog[cfg[roleNameAttr]].member = cfg[roleRolesAttr]
             /\ Args("GRANT") = cfg[roleRolesAttr]

\* C11's case: a Create that desires a membership has succeeded.
C11_Witness ==
    /\ Returned("RoleCreate")
    /\ ret = "ok"
    /\ cfg[roleRolesAttr] # {}
    /\ Sent("GRANT") # {}


\* A role Create, Update or Delete.
Mutating == kind = "role" /\ op \in {"RoleCreate", "RoleUpdate", "RoleDelete"}

\* The statements of the running handler, its commit aside.
Statements == { i \in 1..Len(log) : log[i].kind # "COMMIT" }

\* The handler ran to the end of its statements: its transaction began, none
\* of its statements failed and none of its setters rejected its input.
AllSucceeded == fail \notin {"begin", "stmt", "validation", "unsupported"}

\* The commit of the running handler was sent and succeeded.
Committed == Sent("COMMIT") # {} /\ fail # "commit"

\* C12 (commit exactly once): a role Create, Update or Delete never sends a
\* second commit; one that has returned after at least one statement, with
\* every statement successful, has sent exactly one commit, after its last
\* statement; one whose commit failed returns an error; and once its commit
\* has succeeded nothing the handler does afterwards, its deferred rollback
\* included, changes the catalog.
C12_CommitExactlyOnce ==
    /\ [](Mutating
          => /\ Cardinality(Sent("COMMIT")) <= 1
             /\ \A i \in Sent("COMMIT") : \A j \in Statements : j < i
             /\ (pc = "done" /\ AllSucceeded /\ Statements # {})
                => Cardinality(Sent("COMMIT")) = 1
             /\ (pc = "done" /\ fail = "commit") => ret = "err")
    /\ [][(Mutating /\ Committed) => catalog' = catalog]_vars

\* C12's case: an Update whose commit succeeded and changed the catalog has
\* returned through its deferred rollback.
C12_Witness ==
    /\ Returned("RoleUpdate")
    /\ Committed
    /\ Cardinality(Statements) >= 2
    /\ catalog # pre


\* Goroutine p has taken the lock and not yet returned.
Holding(p) == procs[p].holds # "none"

\* Goroutine p is in a mutating handler at or past its first statement.
InStatements(p) ==
    /\ procs[p].op \in Mutators
    /\ Holding(p)
    /\ \E i \in 1..procs[p].at : Body(procs[p].op)[i] = "stmt"

\* Goroutine p is in Exists or Read and has run its catalog query.
Querying(p) == procs[p].op \in Readers /\ Holding(p) /\ procs[p].at >= 1

\* C14 (mutual exclusion): however the goroutines interleave, at most one of
\* them is in a mutating handler between its first statement and its return,
\* and while a mutating handler holds the lock no other goroutine holds it
\* and none is in Exists or Read with its query run.
C14_MutualExclusion ==
    /\ Cardinality({ p \in Procs : InStatements(p) }) <= 1
    /\ \A p, q \in Procs :
         (p # q /\ procs[q].op \in Mutators /\ Holding(q))
         => ~Holding(p) /\ ~Querying(p)

\* C14's case: a mutating handler is past its first statement while another
\* goroutine has called a handler and waits for the lock.
C14_Witness ==
    \E p, q \in Procs :
      /\ p # q
      /\ InStatements(p)
      /\ procs[q].op # "none"
      /\ ~Holding(q)


\* A handler is running: it has been invoked and has not yet returned.
InHandler == pc \notin {"idle", "done"}

\* C13 as stated (lock modes): while a Create, Update or Delete of a role or
\* an extension runs the lock is held exclusively, and so whenever its
\* transaction is open or a statement of it has been sent; while an Exists or
\* a Read of a role or an extension runs the lock is held on its shared side
\* only, which a second Exists or Read may take as well.
C13_LockModes ==
    /\ (InHandler /\ op \in Mutators) => lock.writer /\ lock.readers = 0
    /\ (InHandler /\ (txn \/ Len(log) > 0)) => lock # Unlocked
    /\ (InHandler /\ op \in Readers) => ~lock.writer /\ lock.readers = 1 /\ CanRLock


\* C15 (lock release on every exit path): whenever no handler is running,
\* whichever handler of a role or an extension returned last and whether it
\* returned success or an error, the lock is held on neither side and no
\* transaction is open.
C15_ReleasedOnReturn ==
    ~InHandler => lock = Unlocked /\ ~txn

\* C15's case: a role Create has returned an error after its commit failed.
C15_Witness ==
    /\ Returned("RoleCreate")
    /\ ret = "err"
    /\ fail = "commit"


\* C16 (fail-stop without retry): in one invocation of any handler no
\* statement is sent twice; once a statement has failed the handler is on its
\* way out and sends nothing more; and it returns an error.
C16_FailStop ==
    /\ [](/\ \A i, j \in 1..Len(log) : i # j => log[i] # log[j]
          /\ fail = "stmt" => pc \in {"return", "done"}
          /\ (pc = "done" /\ fail = "stmt") => ret = "err")
    /\ [][(fail = "stmt" /\ InHandler) => log' = log]_vars

\* C16's case: the first statement of a role Delete failed with the rest of
\* its statements still to send, and the handler is about to return.
C16_Witness ==
    /\ kind = "role"
    /\ op = "RoleDelete"
    /\ pc = "return"
    /\ fail = "stmt"
    /\ Len(log) = 1
    /\ todo # << >>


\* An Exists or a Read of a role or an extension has returned.
ReadReturned == pc = "done" /\ op \in Readers

\* What C17 says of the queries that ran: an Exists that found no row returns
\* false, a Read that found none returns success with the identity cleared,
\* and a query that could not be executed makes the handler return an error.
AbsenceAndErrors ==
    ReadReturned
    => /\ fail = "read" => ret = "err"
       /\ (op = "RoleExists" /\ fail = "none" /\ ~Exists(catalog, d.id))
          => ret = "false"
       /\ (op = "RoleRead" /\ fail = "none")
          => ret = "ok" /\ (d.id = "" \/ Exists(catalog, d.id))
       /\ (op = "ExtExists" /\ fail = "none" /\ ~extcat.exists) => ret = "false"
       /\ (op = "ExtRead" /\ fail = "none")
          => ret = "ok" /\ (d.id = << >> \/ extcat.exists)

\* C17 as stated (no-rows is absence, not an error): what AbsenceAndErrors
\* says, and no Exists or Read returns an error because a query of it found
\* no row.
C17_NoRowsIsAbsence ==
    /\ AbsenceAndErrors
    /\ ReadReturned => fail # "norows"


\* The skip flags of the role a Delete was called on.
SkipDrop     == cfg[roleSkipDropRoleAttr]
SkipReassign == cfg[roleSkipReassignOwnedAttr]

\* C18 (skip flags respected): a Delete of a role saved with skip_drop_role
\* and skip_reassign_owned both true sends no statement and no commit at any
\* point, and, its transaction once begun, returns success with the identity
\* cleared and the catalog as it was.
C18_SkipFlagsRespected ==
    (kind = "role" /\ op = "RoleDelete" /\ SkipDrop /\ SkipReassign)
    => /\ log = << >>
       /\ (pc = "done" /\ fail # "begin")
          => /\ ret = "ok"
             /\ d.id = ""
             /\ catalog = pre

\* C18's case: a Delete with both flags set has returned and the role is
\* still in the catalog.
C18_Witness ==
    /\ Returned("RoleDelete")
    /\ SkipDrop
    /\ SkipReassign
    /\ ret = "ok"
    /\ cfg[roleNameAttr] \in RoleNames
    /\ catalog[cfg[roleNameAttr]].exists


\* The kinds of statement a Delete is to send for the flags of its role, in
\* order.
DeleteOrder ==
    (IF SkipReassign THEN << >> ELSE << "REASSIGN OWNED", "DROP OWNED" >>)
    \o (IF SkipDrop THEN << >> ELSE << "DROP ROLE" >>)

\* C19 (deletion ordering): whatever the skip flags, the statements a role
\* Delete has sent are, in order, the first of REASSIGN OWNED and DROP OWNED
\* (both, unless skip_reassign_owned) followed by DROP ROLE (unless
\* skip_drop_role), each on the role being deleted; and a Delete that
\* returned success has sent all of them.
C19_DeletionOrdering ==
    (kind = "role" /\ op = "RoleDelete")
    => /\ \A i \in Statements :
            /\ i <= Len(DeleteOrder)
            /\ log[i].kind = DeleteOrder[i]
            /\ log[i].role = cfg[roleNameAttr]
       /\ (pc = "done" /\ ret = "ok") => Cardinality(Statements) = Len(DeleteOrder)

\* C19's case: a Delete with neither flag set has sent its three statements
\* and succeeded.
C19_Witness ==
    /\ Returned("RoleDelete")
    /\ ret = "ok"
    /\ ~SkipDrop
    /\ ~SkipReassign
    /\ Cardinality(Statements) = 3


\* The connected server has no row-level security.
NoRLS == featureRLS \notin features

\* No statement in the log sets or clears BYPASSRLS.
NoBypassOption ==
    \A i \in 1..Len(log) :
      log[i].kind \in {"CREATE ROLE", "ALTER ROLE"}
      => \A k \in 1..Len(log[i].opts) :
           log[i].opts[k].key \notin {"BYPASSRLS", "NOBYPASSRLS"}

\* A role Update has returned after setRoleBypassRLS rejected it.
Rejected == Returned("RoleUpdate") /\ fail = "unsupported"

\* A role Update runs on a server without row-level security with a desired
\* bypass flag that differs from the saved one.
BypassDiffers ==
    /\ Running("RoleUpdate")
    /\ NoRLS
    /\ d.old[roleBypassRLSAttr] # cfg[roleBypassRLSAttr]

\* C20 as stated (unsupported capability fails fast): a role Update that a
\* server without row-level security made setRoleBypassRLS reject returns an
\* error with no statement sent, not even a rename; and no statement sent to
\* such a server sets or clears BYPASSRLS.
C20_NoStatementBeforeRejection ==
    /\ Rejected => ret = "err" /\ log = << >>
    /\ (kind = "role" /\ NoRLS) => NoBypassOption

\* C20 amended (rejected after the rename): a role Update whose desired
\* bypass flag differs from the saved one on a server without row-level
\* security sends nothing but a rename and leaves with an error; when
\* setRoleBypassRLS has rejected it, it returns an error with at most the
\* rename sent and the catalog as it was; and no statement sent to such a
\* server sets or clears BYPASSRLS.
C20_RejectedAfterRename ==
    /\ BypassDiffers
       => /\ \A i \in 1..Len(log) : log[i].kind = "RENAME"
          /\ pc = "return" => fail \in {"begin", "validation", "stmt", "unsupported"}
    /\ Rejected
       => /\ ret = "err"
          /\ Len(log) <= 1
          /\ \A i \in 1..Len(log) : log[i].kind = "RENAME"
          /\ catalog = pre
    /\ (kind = "role" /\ NoRLS) => NoBypassOption

\* C20's case: an Update that renamed the role and was then rejected by
\* setRoleBypassRLS has returned.
C20_Witness ==
    /\ Rejected
    /\ Sent("RENAME") = {1}


\* C21 as stated (unsupported capability fails fast on Create): a role Create
\* that desires bypass-RLS on a server without row-level security sends no
\* statement, returns an error, and leaves no role under the desired name.
C21_CreateRejected ==
    (kind = "role" /\ op = "RoleCreate" /\ NoRLS /\ cfg[roleBypassRLSAttr])
    => /\ log = << >>
       /\ pc = "done"
          => /\ ret = "err"
             /\ cfg[roleNameAttr] \in RoleNames
                => catalog[cfg[roleNameAttr]] = pre[cfg[roleNameAttr]]


\* A role Read has returned success for a role it found.
ReadFound == Returned("RoleRead") /\ ret = "ok" /\ d.id # ""

\* C22 (feature-gated read): a role Read that found its role leaves the
\* bypass-RLS attribute at its saved value when the server has no row-level
\* security, and sets it to the catalog's value when it has; and on a server
\* without it a Read never returns the error of the bypass-RLS query, which
\* it does not send.
C22_FeatureGatedRead ==
    /\ (ReadFound /\ NoRLS) => d.new[roleBypassRLSAttr] = cfg[roleBypassRLSAttr]
    /\ (ReadFound /\ ~NoRLS) => d.new[roleBypassRLSAttr] = catalog[d.id].rolbypassrls
    /\ (kind = "role" /\ pc = "readImpl" /\ NoRLS)
       => resourcePostgreSQLRoleReadImpl(d, catalog, features, "rls")
          = resourcePostgreSQLRoleReadImpl(d, catalog, features, "none")

\* C22's case: on a server without row-level security a Read has returned for
\* a role whose saved bypass flag is not the catalog's, and left it so.
C22_Witness ==
    /\ ReadFound
    /\ NoRLS
    /\ d.new[roleBypassRLSAttr] # catalog[d.id].rolbypassrls


\* validatePrivileges has been called on an object type and a privilege list.
Validated == helper.fn = "validatePrivileges"

\* The allow-lists as C23 gives them.
TablePrivileges ==
    {"ALL", "SELECT", "INSERT", "UPDATE", "DELETE", "TRUNCATE", "REFERENCES", "TRIGGER"}
SequencePrivileges == {"ALL", "USAGE", "SELECT", "UPDATE"}

\* C23 (allow-list enforcement): validatePrivileges returns no error exactly
\* when the object type is table or sequence and every privilege of the list
\* is in that type's allow-list; for any other type it returns 'unknown
\* object type' whatever the list, the empty one included.
C23_AllowList ==
    Validated
    => LET t == helper.arg[1]
           P == helper.arg[2]
           listed == IF t = "table" THEN TablePrivileges
                     ELSE IF t = "sequence" THEN SequencePrivileges ELSE {}
           known == t \in {"table", "sequence"}
       IN  /\ helper.out = "nil"
              <=> (known /\ \A i \in 1..Len(P) : P[i] \in listed)
           /\ ~known <=> helper.out = "unknown object type"

\* C23's case: a sequence's list that holds a privilege of tables only has
\* been refused.
C23_Witness ==
    /\ Validated
    /\ helper.arg = << "sequence", << "SELECT", "TRUNCATE" >> >>
    /\ helper.out = "not an allowed privilege"


\* pqQuoteLiteral has been called on a string.
Quoted == helper.fn = "pqQuoteLiteral"

\* The characters a literal escapes by doubling.
Escaped == {"'", "\\"}

\* s with every single quote and every backslash written twice.
RECURSIVE Doubled(_)
Doubled(s) ==
    IF s = << >> THEN << >>
    ELSE (IF Head(s) \in Escaped THEN << Head(s), Head(s) >> ELSE << Head(s) >>)
         \o Doubled(Tail(s))

\* The value of a rendered literal: each doubled quote and each doubled
\* backslash read as one.
RECURSIVE Collapse(_)
Collapse(q) ==
    IF q = << >> THEN << >>
    ELSE IF Len(q) >= 2 /\ q[1] \in Escaped /\ q[2] = q[1]
    THEN << q[1] >> \o Collapse(SubSeq(q, 3, Len(q)))
    ELSE << q[1] >> \o Collapse(Tail(q))

\* C24 (literal escaping round trip): what pqQuoteLiteral returns for a
\* string is the string with every single quote and every backslash doubled
\* and nothing else changed, and reading each doubled quote and doubled
\* backslash of it as one gives the string back.
C24_LiteralRoundTrip ==
    Quoted
    => /\ helper.out = Doubled(helper.arg)
       /\ Collapse(helper.out) = helper.arg

\* C24's case: a string that holds a single quote and a backslash has been
\* quoted.
C24_Witness ==
    /\ Quoted
    /\ helper.arg = << "a", "'", "\\" >>
    /\ helper.out = << "a", "'", "'", "\\", "\\" >>


\* C25 as stated (literals rendered as escaped literals): in every statement
\* a role Create or Update has sent, each password and each valid-until value
\* is rendered through the literal quoting, between single quotes, so that
\* Create and Update render one valid-until value the same way.
C25_LiteralsQuoted ==
    (kind = "role" /\ op \in {"RoleCreate", "RoleUpdate"})
    => \A i \in 1..Len(log) :
         log[i].kind \in {"CREATE ROLE", "ALTER ROLE"}
         => \A k \in 1..Len(log[i].opts) :
              log[i].opts[k].key \in {"PASSWORD", "VALID UNTIL"}
              => log[i].opts[k].quote = "literal"


\* getExtNames has been called on the imported id of a database and a name.
Imported == helper.fn = "getExtNames"

\* C26 as stated (identity round trip): the id generateExtID makes of a
\* database name and an extension name, parsed by getExtNames on import,
\* gives back that database and that name without an error, also when one of
\* them holds a '-'.
C26_IdRoundTrip ==
    Imported
    => /\ ~helper.out.err
       /\ helper.out.database = helper.arg[1]
       /\ helper.out.extName = helper.arg[2]


\* An extension Exists, Read or Delete is running or has returned.
ExtLookup == kind = "extension" /\ op \in {"ExtExists", "ExtRead", "ExtDelete"}

\* The handler works on an imported resource: its state holds no name.
OnImport == cfg[extNameAttr] = << >>

\* The id the handler was called with: the imported one, or the one made of
\* the database and the name of the state.
IdBefore ==
    IF OnImport THEN d.id
    ELSE cfg[extDatabaseAttr] \o << "-" >> \o cfg[extNameAttr]

\* An id that is not two segments around one '-'.
Malformed(id) == id # << >> /\ Len(Split(id)) # 2

\* The handler was stopped by the id: it has sent nothing, and once it has
\* run it is on its way out with the id's error, which it returns.
StoppedById ==
    /\ log = << >>
    /\ pc \in {"return", "done"} => fail = "id"
    /\ pc = "done" => ret = "err" /\ d.id # << >>

C28_EmptyNameRejected ==
    (kind = "role" /\ op \in {"RoleCreate", "RoleUpdate"} /\ cfg[roleNameAttr] = "")
    => /\ log = << >>
       /\ pc = "done"
          => /\ ret = "err"
             /\ fail \in {"begin", "validation"}
             /\ catalog = pre
             /\ op = "RoleCreate" => d.id = ""


\* C29: the connection limit's domain. validateConnLimit reports an error
\* exactly for a value below -1, so a declared connection_limit is -1 (no
\* limit) or a count from 0 up, and every CONNECTION LIMIT option that
\* CREATE ROLE or ALTER ROLE carries is at least -1.
C29_ConnLimitDomain ==
    /\ \A v \in ConnLimits : validateConnLimit(v) <=> v < -1
    /\ \A c \in Configs : c[roleConnLimitAttr] >= -1
    /\ kind = "role" =>
         \A i \in 1..Len(log) :
            \A k \in 1..Len(log[i].opts) :
               log[i].opts[k].key = "CONNECTION LIMIT" => log[i].opts[k].num >= -1

\* An update has set the limit of a role back to -1, the lowest value the
\* validation lets through.
C29_Witness ==
    /\ op = "RoleUpdate"
    /\ \E i \in 1..Len(log) :
         /\ log[i].kind = "ALTER ROLE"
         /\ \E k \in 1..Len(log[i].opts) :
              /\ log[i].opts[k].key = "CONNECTION LIMIT"
              /\ log[i].opts[k].num = -1


\* A role Create or Update is at its read-back.
ReadBack == Mutating /\ pc = "readImpl"

\* C30 (single read-back after commit): a role Create or Update reads the
\* role back only from its commit, the one commit of the invocation, with the
\* transaction closed and nothing failed; the read-back is one step, after
\* which the handler returns; a Create or Update that returns with no error
\* returns from its read-back; and a role Delete never reads back.
C30_SingleReadBack ==
    /\ [](ReadBack => /\ op # "RoleDelete"
                      /\ fail = "none"
                      /\ ~txn
                      /\ Committed
                      /\ Cardinality(Sent("COMMIT")) = 1
                      /\ log[Len(log)].kind = "COMMIT")
    /\ [][ReadBack' => (pc = "commit" /\ fail = "none" /\ Sent("COMMIT") = {})]_vars
    /\ [][ReadBack => (pc' = "return" /\ log' = log /\ catalog' = catalog)]_vars
    /\ [][(/\ Mutating /\ op # "RoleDelete"
           /\ pc # "return" /\ pc' = "return" /\ fail' = "none")
          => ReadBack]_vars

\* C30's case: an Update that changed the connection limit has committed,
\* read the role back and is about to return with no error, holding the
\* limit the catalog now has.
C30_Witness ==
    /\ kind = "role"
    /\ op = "RoleUpdate"
    /\ pc = "return"
    /\ fail = "none"
    /\ Committed
    /\ Sent("ALTER ROLE") # {}
    /\ d.id # ""
    /\ catalog[d.id].exists
    /\ d.new[roleConnLimitAttr] = catalog[d.id].rolconnlimit
    /\ d.old[roleConnLimitAttr] # catalog[d.id].rolconnlimit


\* The update of the schema's policies has returned with no error.
SchemaUpdated == nsp.pc = "done" /\ ~nsp.err

\* The positions in the update's statements of the revokes, and of the
\* grants, of privilege p for grantee g.
RevokesOf(g, p) ==
    { i \in 1..Len(nsp.log) :
        /\ nsp.log[i].role = g /\ nsp.log[i].priv = p
        /\ nsp.log[i].kind \in {"REVOKE", "REVOKE GRANT OPTION FOR"} }

GrantsOf(g, p) ==
    { i \in 1..Len(nsp.log) :
        /\ nsp.log[i].role = g /\ nsp.log[i].priv = p
        /\ nsp.log[i].kind \in {"GRANT", "GRANT WITH GRANT OPTION"} }

\* The policy of g changes, for privilege p, between the plain form and the
\* grant-option form.
FormChange(g, p) ==
    LET old == nsp.before[g][p]
        new == policiesToAcl(nsp.policy)[g][p]
    IN  old >= 1 /\ new >= 1 /\ old # new

\* C31 (revoke before grant for schema policies): in the statements of an
\* update no grant to a grantee comes before a revoke from that grantee;
\* when the policy of a grantee changes between the grant-option form and
\* the plain form of a privilege, the update revokes what the grantee held
\* of it and after that grants the new form; and the policies read back
\* after the update are the declared ones.
C31_RevokeBeforeGrant ==
    /\ \A g \in Grantees : \A p, q \in {"CREATE", "USAGE"} :
          \A i \in RevokesOf(g, p) : \A j \in GrantsOf(g, q) : i < j
    /\ SchemaUpdated =>
         /\ \A g \in Grantees : \A p \in {"CREATE", "USAGE"} :
               FormChange(g, p) => /\ RevokesOf(g, p) # {}
                                   /\ GrantsOf(g, p) # {}
         /\ nsp.observed = nsp.policy
         /\ nsp.acl = policiesToAcl(nsp.policy)

\* C31's case: g1 held {create_with_grant} and usage, the configuration
\* declares {create} and {usage_with_grant} for it, and the update revoked
\* the grant option of CREATE and USAGE itself before granting either.
C31_Witness ==
    /\ SchemaUpdated
    /\ nsp.before["g1"] = [p \in {"CREATE", "USAGE"} |-> IF p = "CREATE" THEN 2 ELSE 1]
    /\ [role |-> "g1", create |-> TRUE, create_with_grant |-> FALSE,
        usage |-> FALSE, usage_with_grant |-> TRUE] \in nsp.observed
    /\ nsp.log[1].kind = "REVOKE GRANT OPTION FOR"
    /\ nsp.log[2].kind = "REVOKE"
    /\ nsp.log[3].kind = "GRANT"
    /\ nsp.log[4].kind = "GRANT WITH GRANT OPTION"


\* The objects the owners have created so far.
Objects == 1..Len(dacl.objects)

\* C32 (default privileges affect only future objects): an object created
\* after a rule for its owner and type was applied carries exactly the
\* privileges of that rule for the grantee, an object created with no rule
\* applied carries none, and no step, the application of a rule included,
\* changes the privileges of an object that exists.
C32_FutureObjectsOnly ==
    /\ [](\A i \in Objects :
            dacl.objects[i].privs = IF dacl.objects[i].after.set
                                    THEN dacl.objects[i].after.privs
                                    ELSE {})
    /\ [][\A i \in Objects : dacl'.objects[i] = dacl.objects[i]]_vars

\* C32's case: o1 created a table, two rules for o1's tables were applied
\* after it, the second narrower than the first, and o1 created a second
\* table: the first table has no privilege for the grantee, the second the
\* privileges of the second rule.
C32_Witness ==
    /\ dacl.pc = "idle"
    /\ dacl.calls = 2
    /\ ~dacl.err
    /\ Len(dacl.objects) = 2
    /\ \A i \in Objects : dacl.objects[i].owner = "o1" /\ dacl.objects[i].type = "table"
    /\ ~dacl.objects[1].after.set
    /\ dacl.objects[1].privs = {}
    /\ dacl.rule = [key |-> << "o1", "table" >>, privs |-> {"SELECT"}]
    /\ dacl.objects[2].after = [set |-> TRUE, privs |-> {"SELECT"}]
    /\ dacl.objects[2].privs = {"SELECT"}


\* The positions in the log of the membership statements.
MembershipStmts == Sent("REVOKE") \cup Sent("GRANT")

\* C33 (attribute alters precede membership changes): in a role Update every
\* ALTER ROLE that sets an attribute, and the rename, is sent before the
\* query of the granted roles and before the first REVOKE or GRANT; a role
\* Create sets the attributes with its CREATE ROLE, which is its first
\* statement, sends no ALTER ROLE, and sends every GRANT after it.
C33_AltersBeforeMembership ==
    /\ (kind = "role" /\ op = "RoleUpdate")
       => \A i \in Sent("ALTER ROLE") \cup Sent("RENAME") :
             \A j \in MembershipStmts \cup Sent("SELECT ROLES") : i < j
    /\ (kind = "role" /\ op = "RoleCreate")
       => /\ Sent("ALTER ROLE") = {}
          /\ Sent("CREATE ROLE") \subseteq {1}
          /\ MembershipStmts # {} => Sent("CREATE ROLE") = {1}

\* C33's case: an Update that altered an attribute, revoked a role and
\* granted a role has returned with success.
C33_Witness ==
    /\ Returned("RoleUpdate")
    /\ ret = "ok"
    /\ Sent("ALTER ROLE") # {}
    /\ Sent("REVOKE") # {}
    /\ Sent("GRANT") # {}


\* A role Create or a role Delete is running.
CreateOrDelete == kind = "role" /\ op \in {"RoleCreate", "RoleDelete"} /\ InHandler

\* The handler has failed at its begin, at a statement or at its commit.
FailedInTxn == fail \in {"begin", "stmt", "commit"}

\* A failed Create or Delete leaves the identity as it was: no step of the
\* handler changes it once the failure happened, and a Create, which starts
\* with no identity, returns with none.
IdentityKeptOnFailure ==
    /\ [][(CreateOrDelete /\ FailedInTxn) => d'.id = d.id]_vars
    /\ []((Returned("RoleCreate") /\ FailedInTxn) => d.id = "")

\* C34 as stated (identity changes only after a successful commit): a step
\* of a role Create or Delete that changes the identity comes after every
\* statement succeeded and the commit was sent and succeeded, and a failed
\* Create or Delete leaves the identity as it was.
C34_IdentityAfterCommit ==
    /\ [][(CreateOrDelete /\ d'.id # d.id)
          => (AllSucceeded /\ Committed)']_vars
    /\ IdentityKeptOnFailure

\* C34 as the code has it: a step of a role Create or Delete that changes the
\* identity comes after every statement succeeded and, where the handler had
\* a statement to send, after the commit was sent and succeeded; a Delete
\* with every statement skipped sends no commit and clears the identity; and
\* a failed Create or Delete leaves the identity as it was.
C34_IdentityAfterSuccess ==
    /\ [][(CreateOrDelete /\ d'.id # d.id)
          => (/\ AllSucceeded
              /\ fail # "commit"
              /\ (Statements # {} \/ op = "RoleCreate") => Committed)']_vars
    /\ IdentityKeptOnFailure

\* C34's case: a Delete has dropped its role, committed and cleared the
\* identity.
C34_Witness ==
    /\ Returned("RoleDelete")
    /\ ret = "ok"
    /\ Sent("DROP ROLE") # {}
    /\ Committed
    /\ d.id = ""


\* C35 as stated (identity on a failed rename): when a role Update that sent
\* a rename has failed at a statement or at its commit and returned with
\* nothing committed, so that the catalog has the role under its old name,
\* the identity is the old name.
C35_IdentityOnFailedRename ==
    (/\ Returned("RoleUpdate")
     /\ fail \in {"stmt", "commit"}
     /\ Sent("RENAME") # {}
     /\ catalog = pre)
    => \A i \in Sent("RENAME") : d.id = log[i].role


\* Goroutine p has called a handler and waits for the lock.
Waiting(p) == procs[p].op # "none" /\ procs[p].holds = "none"

\* C36 (deadlock freedom and termination): no step of a handler that holds
\* the lock takes the lock again, the read-back of Create and Update
\* included; and under fair scheduling every goroutine that has called a
\* handler gets the lock, and every goroutine that holds the lock returns
\* and releases it.
C36_Termination ==
    /\ [](\A p \in Procs :
            Holding(p) => \A i \in 1..Len(Body(procs[p].op)) :
                             Body(procs[p].op)[i] \notin {"lock", "rlock"})
    /\ \A p \in Procs : Waiting(p) ~> Holding(p)
    /\ \A p \in Procs : Holding(p) ~> procs[p] = NoCall

\* C36's case: one goroutine is at the read-back of a role Create, under the
\* exclusive lock, while another waits for the lock.
C36_Witness ==
    /\ procs[1].op = "RoleCreate"
    /\ procs[1].holds = "exclusive"
    /\ procs[1].at = 3
    /\ ~procs[1].err
    /\ Waiting(2)
    /\ procs[2].op = "RoleRead"

=============================================================================
